---- MODULE Spec2Model ----
(***************************************************************************)
(* SimplDB: a model of the statement path of simpldb                       *)
(*   Database.execute -> SQLParser.parse -> QueryExecutor.execute          *)
(*   -> Storage / Schema / IndexManager -> DatabaseCatalog                 *)
(* One table name, INTEGER columns.  Python's None is NULL; a comparison   *)
(* with None raises TypeError, which the model carries as status "raise".  *)
(***************************************************************************)
EXTENDS Integers, Sequences, FiniteSets, TLC

\* ---- bounds ----
MaxVal == 2        \* integer literals are 1..MaxVal
MaxId == 3         \* INSERT is offered while next_id <= MaxId

\* ---- values ----
NULL == 0          \* Python None
STR == -1          \* a text value that is not a number (e.g. "1 = 2")
Literals == 0..MaxVal

Last(s) == s[Len(s)]
Range(s) == {s[i] : i \in DOMAIN s}
Get(d, k) == IF k \in DOMAIN d THEN d[k] ELSE NULL

\* ======================= indexes.py : BTreeNode =========================
\* bisect.bisect_left(a, x); every "a[mid] < x" with a None operand, or
\* between a number and a text, raises.
RECURSIVE bisect_loop(_, _, _, _)
bisect_loop(a, x, lo, hi) ==
    IF lo >= hi THEN [st |-> "ok", pos |-> lo]
    ELSE LET mid == (lo + hi) \div 2 IN
         IF a[mid + 1] = NULL \/ x = NULL \/ x = STR THEN [st |-> "raise", pos |-> 0]
         ELSE IF a[mid + 1] < x THEN bisect_loop(a, x, mid + 1, hi)
                                ELSE bisect_loop(a, x, lo, mid)

bisect_left(a, x) == bisect_loop(a, x, 0, Len(a))

InsertAt(s, pos, x) == SubSeq(s, 1, pos) \o <<x>> \o SubSeq(s, pos + 1, Len(s))
RemoveAt(s, pos) == SubSeq(s, 1, pos) \o SubSeq(s, pos + 2, Len(s))
RemoveVal(s, x) == SelectSeq(s, LAMBDA y : y # x)

NewBTreeNode == [keys |-> <<>>, values |-> <<>>]

\* pos is 0-based as in the source; sequences are 1-based.
KeyAt(node, pos, key) == pos < Len(node.keys) /\ node.keys[pos + 1] = key

BTreeNode_insert(node, key, row_id) ==
    LET at(b) ==
          IF b.st = "raise" THEN [st |-> "raise", node |-> node]
          ELSE IF KeyAt(node, b.pos, key)
               THEN IF row_id \in Range(node.values[b.pos + 1])
                    THEN [st |-> "ok", node |-> node]
                    ELSE [st |-> "ok",
                          node |-> [node EXCEPT !.values[b.pos + 1] = Append(@, row_id)]]
               ELSE [st |-> "ok",
                     node |-> [keys |-> InsertAt(node.keys, b.pos, key),
                               values |-> InsertAt(node.values, b.pos, <<row_id>>)]]
    IN at(bisect_left(node.keys, key))

BTreeNode_search(node, key) ==
    LET at(b) ==
          IF b.st = "raise" THEN [st |-> "raise", res |-> <<>>]
          ELSE IF KeyAt(node, b.pos, key)
               THEN [st |-> "ok", res |-> node.values[b.pos + 1]]
               ELSE [st |-> "ok", res |-> <<>>]
    IN at(bisect_left(node.keys, key))

\* delete(key, row_id) with a row_id (the only form the executor path uses)
BTreeNode_delete(node, key, row_id) ==
    LET at(b) ==
          IF b.st = "raise" THEN [st |-> "raise", node |-> node]
          ELSE IF KeyAt(node, b.pos, key) /\ row_id \in Range(node.values[b.pos + 1])
               THEN LET rest == RemoveVal(node.values[b.pos + 1], row_id) IN
                    IF rest = <<>>
                    THEN [st |-> "ok",
                          node |-> [keys |-> RemoveAt(node.keys, b.pos),
                                    values |-> RemoveAt(node.values, b.pos)]]
                    ELSE [st |-> "ok", node |-> [node EXCEPT !.values[b.pos + 1] = rest]]
               ELSE [st |-> "ok", node |-> node]
    IN at(bisect_left(node.keys, key))

\* ========================= indexes.py : Index ===========================
NewIndex(column_name, unique) ==
    [column_name |-> column_name, unique |-> unique, root |-> NewBTreeNode]

\* st: "ok" (True, None) | "fail" (False, message) | "raise" (exception)
Index_insert(index, key, row_id) ==
    LET put(r) == [st |-> r.st, index |-> [index EXCEPT !.root = r.node]]
        found(s) ==
          IF index.unique /\ s.st = "raise" THEN [st |-> "raise", index |-> index]
          ELSE IF index.unique /\ s.res # <<>> /\ row_id \notin Range(s.res)
          THEN [st |-> "fail", index |-> index]
          ELSE put(BTreeNode_insert(index.root, key, row_id))
    IN found(BTreeNode_search(index.root, key))

Index_delete(index, key, row_id) ==
    LET put(r) == [st |-> r.st, index |-> [index EXCEPT !.root = r.node]]
    IN put(BTreeNode_delete(index.root, key, row_id))

Index_update(index, old_key, new_key, row_id) ==
    LET put(r) == [st |-> r.st, index |-> [index EXCEPT !.root = r.node]]
        \* "Rollback - reinsert old key"
        reinserted(back) ==
          [st |-> IF back.st = "raise" THEN "raise" ELSE "fail",
           index |-> [index EXCEPT !.root = back.node]]
        found(d, s) ==
          IF index.unique /\ s.st = "raise"
          THEN [st |-> "raise", index |-> [index EXCEPT !.root = d.node]]
          ELSE IF index.unique /\ s.res # <<>> /\ row_id \notin Range(s.res)
          THEN reinserted(BTreeNode_insert(d.node, old_key, row_id))
          ELSE put(BTreeNode_insert(d.node, new_key, row_id))
        deleted(d) ==
          IF d.st = "raise" THEN [st |-> "raise", index |-> index]
          ELSE found(d, BTreeNode_search(d.node, new_key))
    IN deleted(BTreeNode_delete(index.root, old_key, row_id))

Index_search(index, key) == BTreeNode_search(index.root, key)

\* range_search(start_key, end_key, include_start, include_end) as
\* _get_candidate_rows_with_index calls it: ">" (value, None, not included),
\* ">=" (value, None), "<" (None, value, not included), "<=" (None, value).
\* A None value leaves both keys None: every row_id is returned.
RECURSIVE RangeLoop(_, _, _, _, _)
RangeLoop(node, op, value, i, result) ==
    IF i > Len(node.keys) THEN [st |-> "ok", res |-> result]
    ELSE LET key == node.keys[i] IN
         IF value = NULL
         THEN RangeLoop(node, op, value, i + 1, result \o node.values[i])
         ELSE IF key = NULL \/ value = STR THEN [st |-> "raise", res |-> <<>>]
         ELSE IF \/ op = ">" /\ key > value
                 \/ op = ">=" /\ key >= value
                 \/ op = "<" /\ key < value
                 \/ op = "<=" /\ key <= value
              THEN RangeLoop(node, op, value, i + 1, result \o node.values[i])
              ELSE RangeLoop(node, op, value, i + 1, result)

Index_range_search(index, op, value) == RangeLoop(index.root, op, value, 1, <<>>)

\* BTreeNode.range_search(start_key, end_key, include_start, include_end):
\* the loop from start_pos; "key > end_key" with a None or text end_key raises.
RECURSIVE BTreeRangeLoop(_, _, _, _, _, _, _)
BTreeRangeLoop(node, start_key, end_key, include_start, include_end, i, result) ==
    IF i > Len(node.keys) THEN [st |-> "ok", res |-> result]
    ELSE LET key == node.keys[i] IN
         IF end_key = NULL \/ end_key = STR \/ key = NULL
         THEN [st |-> "raise", res |-> <<>>]
         ELSE IF key > end_key THEN [st |-> "ok", res |-> result]
         ELSE IF key = end_key /\ ~include_end THEN [st |-> "ok", res |-> result]
         ELSE IF key = start_key /\ ~include_start
         THEN BTreeRangeLoop(node, start_key, end_key, include_start, include_end,
                             i + 1, result)
         ELSE BTreeRangeLoop(node, start_key, end_key, include_start, include_end,
                             i + 1, result \o node.values[i])

BTreeNode_range_search(node, start_key, end_key, include_start, include_end) ==
    LET from(b) ==
          IF b.st = "raise" THEN [st |-> "raise", res |-> <<>>]
          ELSE BTreeRangeLoop(node, start_key, end_key, include_start, include_end,
                              b.pos + 1, <<>>)
    IN from(bisect_left(node.keys, start_key))

\* Index.range_search(start_key, end_key, include_start, include_end): the
\* filter over get_all_keys(); a bound that is None is not compared.
RECURSIVE IndexRangeLoop(_, _, _, _, _, _, _)
IndexRangeLoop(node, start_key, end_key, include_start, include_end, i, result) ==
    IF i > Len(node.keys) THEN [st |-> "ok", res |-> result]
    ELSE LET key == node.keys[i]
             below == start_key # NULL
                        /\ (key < start_key \/ (key = start_key /\ ~include_start))
             above == end_key # NULL
                        /\ (key > end_key \/ (key = end_key /\ ~include_end))
         IN IF \/ start_key # NULL /\ (start_key = STR \/ key = NULL)
               \/ end_key # NULL /\ (end_key = STR \/ key = NULL)
            THEN [st |-> "raise", res |-> <<>>]
            ELSE IndexRangeLoop(node, start_key, end_key, include_start, include_end,
                                i + 1,
                                IF below \/ above THEN result
                                ELSE result \o node.values[i])

\* a variant that takes an excluded start key as included
range_search_closed(index, start_key, end_key, include_start, include_end) ==
    IndexRangeLoop(index.root, start_key, end_key, TRUE, include_end, 1, <<>>)

range_search(index, start_key, end_key, include_start, include_end) ==
    IndexRangeLoop(index.root, start_key, end_key, include_start, include_end, 1, <<>>)

\* the (key, row_id) entries an index holds
Entries(index) ==
    UNION {{<<index.root.keys[i], r>> : r \in Range(index.root.values[i])} :
              i \in DOMAIN index.root.keys}

\* ====================== indexes.py : IndexManager =======================
\* self.indexes[table] is a dict in insertion order: a sequence of Index.
\* An absent table key and an empty dict are both <<>> (drop_index removes
\* the key with the last index, create_index adds it with the first).
\* Every operation returns the indexes and "trail": the indexes as they are
\* after each Index call it made, in order.

IndexPos(idxs, column_name) ==
    IF \E i \in DOMAIN idxs : idxs[i].column_name = column_name
    THEN CHOOSE i \in DOMAIN idxs : idxs[i].column_name = column_name
    ELSE 0

has_index_never(idxs, column_name) == FALSE

has_index(idxs, column_name) == IndexPos(idxs, column_name) # 0

create_index(idxs, column_name, unique) ==
    IF has_index(idxs, column_name) THEN [st |-> "raise", idxs |-> idxs]
    ELSE [st |-> "ok", idxs |-> Append(idxs, NewIndex(column_name, unique))]

drop_index_none(idxs, column_name) == idxs

drop_index(idxs, column_name) ==
    SelectSeq(idxs, LAMBDA ix : ix.column_name # column_name)

list_indexes(idxs) == [i \in DOMAIN idxs |-> idxs[i].column_name]

\* variant of InsertRollback: the inserts already made are left in place
InsertRollback_none(idxs, trail, updated, row_id, row_data) ==
    [st |-> "ok", idxs |-> idxs, trail |-> trail]

\* rollback loop of insert_into_indexes: idx.delete(val, row_id) for every
\* (col, val) of updated_indexes; "updated" holds the positions.
RECURSIVE InsertRollback(_, _, _, _, _)
InsertRollback(idxs, trail, updated, row_id, row_data) ==
    IF updated = <<>> THEN [st |-> "ok", idxs |-> idxs, trail |-> trail]
    ELSE LET i == Head(updated)
             deleted(d) ==
               LET nx == [idxs EXCEPT ![i] = d.index] IN
               IF d.st = "raise"
               THEN [st |-> "raise", idxs |-> nx, trail |-> trail]
               ELSE InsertRollback(nx, Append(trail, nx), Tail(updated), row_id, row_data)
         IN deleted(Index_delete(idxs[i], Get(row_data, idxs[i].column_name), row_id))

RECURSIVE InsertLoop(_, _, _, _, _, _)
InsertLoop(idxs, trail, updated, i, row_id, row_data) ==
    IF i > Len(idxs) THEN [st |-> "ok", idxs |-> idxs, trail |-> trail]
    ELSE LET value == Get(row_data, idxs[i].column_name)
             rolled_back(rb) ==
               [st |-> IF rb.st = "raise" THEN "raise" ELSE "fail",
                idxs |-> rb.idxs, trail |-> rb.trail]
             inserted(r) ==
               LET nx == [idxs EXCEPT ![i] = r.index] IN
               IF r.st = "ok"
               THEN InsertLoop(nx, Append(trail, nx), Append(updated, i),
                               i + 1, row_id, row_data)
               ELSE \* (False, error) and the except branch both roll back
                    rolled_back(InsertRollback(nx, trail, updated, row_id, row_data))
         IN IF value = NULL
            THEN InsertLoop(idxs, trail, updated, i + 1, row_id, row_data)
            ELSE inserted(Index_insert(idxs[i], value, row_id))

insert_into_indexes(idxs, row_id, row_data) ==
    IF idxs = <<>> THEN [st |-> "ok", idxs |-> idxs, trail |-> <<>>]
    ELSE InsertLoop(idxs, <<>>, <<>>, 1, row_id, row_data)

\* variant of delete_from_indexes: the index entries of the row are left
delete_from_indexes_none(idxs, row_id, row_data) ==
    [st |-> "ok", idxs |-> idxs, trail |-> <<>>]

RECURSIVE DeleteLoop(_, _, _, _, _)
DeleteLoop(idxs, trail, i, row_id, row_data) ==
    IF i > Len(idxs) THEN [st |-> "ok", idxs |-> idxs, trail |-> trail]
    ELSE LET value == Get(row_data, idxs[i].column_name)
             deleted(d) ==
               LET nx == [idxs EXCEPT ![i] = d.index] IN
               IF d.st = "raise"
               THEN [st |-> "raise", idxs |-> nx, trail |-> trail]
               ELSE DeleteLoop(nx, Append(trail, nx), i + 1, row_id, row_data)
         IN IF value = NULL THEN DeleteLoop(idxs, trail, i + 1, row_id, row_data)
            ELSE deleted(Index_delete(idxs[i], value, row_id))

delete_from_indexes(idxs, row_id, row_data) ==
    DeleteLoop(idxs, <<>>, 1, row_id, row_data)

\* rollback loop of update_indexes: idx.update(new_val, old_val, row_id) for
\* every (col, old_val, new_val) of updated_indexes; its result is ignored.
RECURSIVE UpdateRollback(_, _, _, _, _, _)
UpdateRollback(idxs, trail, updated, row_id, old_data, new_data) ==
    IF updated = <<>> THEN [st |-> "ok", idxs |-> idxs, trail |-> trail]
    ELSE LET i == Head(updated)
             c == idxs[i].column_name
             undone(u) ==
               LET nx == [idxs EXCEPT ![i] = u.index] IN
               IF u.st = "raise"
               THEN [st |-> "raise", idxs |-> nx, trail |-> trail]
               ELSE UpdateRollback(nx, Append(trail, nx), Tail(updated),
                                   row_id, old_data, new_data)
         IN undone(Index_update(idxs[i], Get(new_data, c), Get(old_data, c), row_id))

RECURSIVE UpdateLoop(_, _, _, _, _, _, _)
UpdateLoop(idxs, trail, updated, i, row_id, old_data, new_data) ==
    IF i > Len(idxs) THEN [st |-> "ok", idxs |-> idxs, trail |-> trail]
    ELSE LET c == idxs[i].column_name
             old_value == Get(old_data, c)
             new_value == Get(new_data, c)
             rolled_back(rb) ==
               [st |-> IF rb.st = "raise" THEN "raise" ELSE "fail",
                idxs |-> rb.idxs, trail |-> rb.trail]
             updated_to(u) ==
               LET nx == [idxs EXCEPT ![i] = u.index] IN
               IF u.st = "ok"
               THEN UpdateLoop(nx, Append(trail, nx), Append(updated, i),
                               i + 1, row_id, old_data, new_data)
               ELSE rolled_back(UpdateRollback(nx, trail, updated, row_id,
                                               old_data, new_data))
         IN IF old_value = new_value \/ new_value = NULL
            THEN UpdateLoop(idxs, trail, updated, i + 1, row_id, old_data, new_data)
            ELSE updated_to(Index_update(idxs[i], old_value, new_value, row_id))

update_indexes(idxs, row_id, old_data, new_data) ==
    IF idxs = <<>> THEN [st |-> "ok", idxs |-> idxs, trail |-> <<>>]
    ELSE UpdateLoop(idxs, <<>>, <<>>, 1, row_id, old_data, new_data)

\* The index file of the table, <table>_indexes.json: the indexes as they
\* were last saved.  _save_indexes returns without writing when the table
\* has no index; _load_indexes skips a file it cannot parse with a warning.
NoIndexFile == [exists |-> FALSE, torn |-> FALSE, indexes |-> <<>>]
TornIndexFile == [exists |-> TRUE, torn |-> TRUE, indexes |-> <<>>]

_save_indexes(index_file, idxs) ==
    IF idxs = <<>> THEN index_file
    ELSE [exists |-> TRUE, torn |-> FALSE, indexes |-> idxs]

_load_indexes(index_file) ==
    IF index_file.exists /\ ~index_file.torn THEN index_file.indexes ELSE <<>>

\* the file after drop_index has removed the index from idxs: deleted with
\* the last index, saved otherwise, untouched if there was no such index
DropSaved(index_file, idxs, column_name) ==
    IF IndexPos(idxs, column_name) = 0 THEN index_file
    ELSE IF Len(idxs) = 1 THEN NoIndexFile
    ELSE _save_indexes(index_file,
                       SelectSeq(idxs, LAMBDA ix : ix.column_name # column_name))

\* rebuild_index: clear the index, insert every row with a non-null value;
\* a failed insert is only printed.
RECURSIVE RebuildLoop(_, _, _)
RebuildLoop(index, rows, i) ==
    IF i > Len(rows) THEN [st |-> "ok", index |-> index, warned |-> <<>>]
    ELSE LET value == Get(rows[i].data, index.column_name)
             noted(w, r) == [r EXCEPT !.warned = w \o @]
             inserted(r) ==
               IF r.st = "raise"
               THEN [st |-> "raise", index |-> r.index, warned |-> <<>>]
               ELSE noted(IF r.st = "fail" THEN <<rows[i].row_id>> ELSE <<>>,
                          RebuildLoop(r.index, rows, i + 1))
         IN IF value = NULL THEN RebuildLoop(index, rows, i + 1)
            ELSE inserted(Index_insert(index, value, rows[i].row_id))

rebuild_index(idxs, column_name, rows) ==
    LET p == IndexPos(idxs, column_name)
        rebuilt(r) == [st |-> r.st, idxs |-> [idxs EXCEPT ![p] = r.index],
                       warned |-> r.warned]
    IN IF p = 0 THEN [st |-> "ok", idxs |-> idxs, warned |-> <<>>]
       ELSE rebuilt(RebuildLoop([idxs[p] EXCEPT !.root = NewBTreeNode], rows, 1))

\* ============================ schema.py =================================
\* A schema is the sequence of its columns (dict in declaration order).
\* Column.__init__ adds NOT_NULL to a PRIMARY_KEY column.  max_length is
\* NoLength when the declaration gives none (None is not the length 0).
NoLength == -1
ColumnOf(name, data_type, max_length, constraints, default) ==
    [name |-> name,
     data_type |-> data_type,
     max_length |-> max_length,
     constraints |-> IF "PRIMARY_KEY" \in constraints
                     THEN constraints \cup {"NOT_NULL"} ELSE constraints,
     default |-> default]

\* an INTEGER column
Column(name, constraints, default) ==
    ColumnOf(name, "INTEGER", NoLength, constraints, default)

\* the members of DataType the model uses
DataTypes == {"INTEGER", "VARCHAR"}

\* A text made of the digits of the number n is the value -(n + 2); STR is a
\* text that is not a number.
Text(n) == 0 - (n + 2)
NumberOf(t) == 0 - (t + 2)
IsText(v) == v < 0

\* len(str(v)) of a number or of the text of a number
RECURSIVE Digits(_)
Digits(n) == IF n < 10 THEN 1 ELSE 1 + Digits(n \div 10)
RenderedLen(v) == IF v = STR THEN 1 ELSE IF IsText(v) THEN Digits(NumberOf(v)) ELSE Digits(v)

is_primary_key(column) == "PRIMARY_KEY" \in column.constraints
is_unique(column) == "UNIQUE" \in column.constraints \/ is_primary_key(column)
is_not_null(column) == "NOT_NULL" \in column.constraints

ColumnNames(schema) == {schema[i].name : i \in DOMAIN schema}
get_unique_columns(schema) == SelectSeq(schema, is_unique)

\* Column.convert_value.  INTEGER: int(value), a non-numeric text raises.
\* VARCHAR: str(value).
convert_value(column, value) ==
    IF column.data_type = "VARCHAR"
    THEN [st |-> "ok", v |-> IF IsText(value) THEN value ELSE Text(value)]
    ELSE IF value = STR THEN [st |-> "raise", v |-> value]
    ELSE [st |-> "ok", v |-> IF IsText(value) THEN NumberOf(value) ELSE value]

\* a variant without the VARCHAR length check
validate_value_nolen(column, value) ==
    IF value = NULL THEN ~is_not_null(column)
    ELSE convert_value(column, value).st = "ok"

validate_value(column, value) ==
    IF value = NULL THEN ~is_not_null(column)
    ELSE IF convert_value(column, value).st # "ok" THEN FALSE
    ELSE IF column.data_type = "VARCHAR"
    THEN RenderedLen(convert_value(column, value).v) <= column.max_length
    ELSE TRUE

\* validate_row writes the defaults it applies into row_data (the caller's
\* dict) and reports whether the row is valid.
WithDefaults(schema, row_data) ==
    [c \in DOMAIN row_data \cup
           {schema[i].name : i \in {j \in DOMAIN schema :
                Get(row_data, schema[j].name) = NULL /\ schema[j].default # NULL}}
       |-> LET v == Get(row_data, c) IN
           IF v = NULL /\ \E i \in DOMAIN schema :
                              schema[i].name = c /\ schema[i].default # NULL
           THEN (CHOOSE col \in Range(schema) : col.name = c).default
           ELSE v]

validate_row(schema, row_data) ==
    LET checked(filled) ==
          [valid |-> /\ DOMAIN row_data \subseteq ColumnNames(schema)
                     /\ \A i \in DOMAIN schema :
                            validate_value(schema[i], Get(filled, schema[i].name)),
           row_data |-> filled]
    IN checked(WithDefaults(schema, row_data))

convert_row(schema, row_data) ==
    [c \in ColumnNames(schema) |->
        LET col == CHOOSE x \in Range(schema) : x.name = c
            v == Get(row_data, c)
            value == IF v = NULL /\ col.default # NULL THEN col.default ELSE v
        IN IF value # NULL THEN convert_value(col, value).v ELSE NULL]

\* variants of check_unique_constraint: one that looks at PRIMARY KEY columns
\* only, one that takes an exclude_row_id as "nothing to check"
check_unique_constraint_pk(schema, column_name, value, existing_rows, exclude_row_id) ==
    IF ~\E i \in DOMAIN schema : schema[i].name = column_name /\ is_primary_key(schema[i])
    THEN TRUE
    ELSE IF value = NULL THEN TRUE
    ELSE \A i \in DOMAIN existing_rows :
            \/ (exclude_row_id # 0 /\ existing_rows[i].row_id = exclude_row_id)
            \/ Get(existing_rows[i].data, column_name) # value

check_unique_constraint_excl(schema, column_name, value, existing_rows, exclude_row_id) ==
    IF ~\E i \in DOMAIN schema : schema[i].name = column_name /\ is_unique(schema[i])
    THEN TRUE
    ELSE IF value = NULL THEN TRUE
    ELSE \A i \in DOMAIN existing_rows :
            \/ exclude_row_id # 0
            \/ Get(existing_rows[i].data, column_name) # value

\* existing_rows are the stored rows; TRUE when the value is acceptable.
\* exclude_row_id = 0 is "no exclusion" (row ids start at 1).
check_unique_constraint(schema, column_name, value, existing_rows, exclude_row_id) ==
    IF ~\E i \in DOMAIN schema : schema[i].name = column_name /\ is_unique(schema[i])
    THEN TRUE
    ELSE IF value = NULL THEN TRUE
    ELSE \A i \in DOMAIN existing_rows :
            \/ (exclude_row_id # 0 /\ existing_rows[i].row_id = exclude_row_id)
            \/ Get(existing_rows[i].data, column_name) # value

\* ============================ storage.py ================================
\* The table file: rows in insertion order and the row-id counter.
NoFile == [exists |-> FALSE, torn |-> FALSE, rows |-> <<>>, next_id |-> 1]
EmptyFile == [exists |-> TRUE, torn |-> FALSE, rows |-> <<>>, next_id |-> 1]
\* a file that a crash left truncated or half written: what it held is lost
TornFile == [exists |-> TRUE, torn |-> TRUE, rows |-> <<>>, next_id |-> 1]

\* _read_data: a corrupted (JSONDecodeError) or missing (FileNotFoundError)
\* file reads as the empty structure
_read_data(file) ==
    IF file.torn \/ ~file.exists THEN [rows |-> <<>>, next_id |-> 1]
    ELSE [rows |-> file.rows, next_id |-> file.next_id]

\* _write_data: the file is opened with 'w' and the whole structure dumped
_write_data(data) ==
    [exists |-> TRUE, torn |-> FALSE, rows |-> data.rows, next_id |-> data.next_id]

\* Storage.get_table / TableStorage.__init__: the file is created if missing
get_table(file) == IF file.exists THEN file ELSE _write_data(_read_data(NoFile))

\* variant of insert: the row_id taken from the number of rows
TableStorage_insert_len(file, row_data) ==
    LET data == _read_data(file) IN
    [file |-> _write_data([rows |-> Append(data.rows,
                                            [row_id |-> Len(data.rows) + 1,
                                             data |-> row_data]),
                           next_id |-> Len(data.rows) + 2]),
     row_id |-> Len(data.rows) + 1]

TableStorage_insert(file, row_data) ==
    LET data == _read_data(file) IN
    [file |-> _write_data([rows |-> Append(data.rows, [row_id |-> data.next_id,
                                                        data |-> row_data]),
                           next_id |-> data.next_id + 1]),
     row_id |-> data.next_id]

select_all(file) == _read_data(file).rows

\* select_by_id: the row as a one-element list, <<>> for None
select_by_id(file, row_id) ==
    SelectSeq(_read_data(file).rows, LAMBDA r : r.row_id = row_id)

Finds(file, row_id) ==
    \E i \in DOMAIN _read_data(file).rows : _read_data(file).rows[i].row_id = row_id

\* update_by_id writes only when the row is found
update_by_id(file, row_id, updates) ==
    LET data == _read_data(file) IN
    IF \A i \in DOMAIN data.rows : data.rows[i].row_id # row_id THEN file
    ELSE _write_data([data EXCEPT !.rows =
        [i \in DOMAIN data.rows |->
            IF data.rows[i].row_id = row_id
            THEN [data.rows[i] EXCEPT !.data =
                     [c \in DOMAIN data.rows[i].data \cup DOMAIN updates |->
                         IF c \in DOMAIN updates THEN updates[c]
                         ELSE data.rows[i].data[c]]]
            ELSE data.rows[i]]])

\* delete_by_id writes only when a row was removed
delete_by_id(file, row_id) ==
    LET data == _read_data(file) IN
    IF \A i \in DOMAIN data.rows : data.rows[i].row_id # row_id THEN file
    ELSE _write_data([data EXCEPT !.rows = SelectSeq(@, LAMBDA r : r.row_id # row_id)])

\* variant of count: the row-id counter taken for the number of rows
\* Storage.drop_table: the table's file is deleted
drop_table(file) == NoFile

count_by_counter(file) == _read_data(file).next_id - 1

count(file) == Len(_read_data(file).rows)

\* ============================ parser.py =================================
\* A WHERE clause is the list of its AND-separated parts; a part is the list
\* of its blank-separated tokens.  <<>> is "no WHERE clause".  LIKE is not in
\* the token alphabet of the model.
DigitTok == <<"1", "2", "3", "4">>
Tok(v) == DigitTok[v]

\* SQLParser._parse_value on one token
_parse_value(tok) ==
    IF tok = "NULL" THEN NULL
    ELSE IF \E v \in DOMAIN DigitTok : DigitTok[v] = tok
         THEN CHOOSE v \in DOMAIN DigitTok : DigitTok[v] = tok
         ELSE STR

\* text of several tokens: never NULL, never a number
ValueOfText(toks) == IF Len(toks) = 1 THEN _parse_value(toks[1]) ELSE STR
\* a column text that is not one identifier names no column
ColumnOfText(toks) == IF Len(toks) = 1 THEN toks[1] ELSE "?"

CompareOps == <<"<=", ">=", "!=", "<", ">", "=">>
Occurrences(part, op) == {i \in DOMAIN part : part[i] = op}
HasAt(part, i, toks) ==
    /\ i + Len(toks) - 1 <= Len(part)
    /\ \A j \in DOMAIN toks : part[i + j - 1] = toks[j]
Contains(part, toks) == \E i \in DOMAIN part : HasAt(part, i, toks)

\* the first operator of CompareOps that occurs in the part, 0 if none
FirstOp(part) ==
    IF \E k \in DOMAIN CompareOps : Occurrences(part, CompareOps[k]) # {}
    THEN CHOOSE k \in DOMAIN CompareOps :
            /\ Occurrences(part, CompareOps[k]) # {}
            /\ \A j \in 1..(k - 1) : Occurrences(part, CompareOps[j]) = {}
    ELSE 0

\* One pass of the loop body of _parse_where.  loc holds the locals that
\* survive from one part to the next: match ("unbound" until first set),
\* column, value_str (here already as its parsed value).
ParsePart(loc, part) ==
    IF loc.st = "raise" THEN loc
    ELSE IF Contains(part, <<"IS", "NOT", "NULL">>)
    THEN IF Len(part) >= 4 /\ HasAt(part, 2, <<"IS", "NOT", "NULL">>)
         THEN [loc EXCEPT !.conditions = Append(@,
                 [column |-> part[1], operator |-> "IS NOT NULL", value |-> NULL])]
         ELSE [loc EXCEPT !.st = "raise"]
    ELSE IF Contains(part, <<"IS", "NULL">>)
    THEN IF Len(part) >= 3 /\ HasAt(part, 2, <<"IS", "NULL">>)
         THEN [loc EXCEPT !.conditions = Append(@,
                 [column |-> part[1], operator |-> "IS NULL", value |-> NULL])]
         ELSE [loc EXCEPT !.st = "raise"]
    ELSE LET \* the locals after "parts_split = part.split(op)" and its if
             bound(k, set) ==
               IF set.match = "unbound" THEN [loc EXCEPT !.st = "raise"]
               ELSE [set EXCEPT !.conditions = Append(@,
                       [column |-> set.column, operator |-> CompareOps[k],
                        value |-> set.value])]
             split(k, occ, at) ==
               bound(k, IF Cardinality(occ) = 1
                        THEN [loc EXCEPT
                                !.match = "true",
                                !.column = ColumnOfText(SubSeq(part, 1, at - 1)),
                                !.value = ValueOfText(SubSeq(part, at + 1, Len(part)))]
                        ELSE loc)
             with_op(k) ==
               IF k = 0 THEN loc        \* no operator found: nothing is appended
               ELSE split(k, Occurrences(part, CompareOps[k]),
                          CHOOSE i \in Occurrences(part, CompareOps[k]) : TRUE)
         IN with_op(FirstOp(part))

RECURSIVE ParseParts(_, _)
ParseParts(loc, parts) ==
    IF parts = <<>> THEN loc ELSE ParseParts(ParsePart(loc, Head(parts)), Tail(parts))

\* st = "raise": parse() raises and Database.execute returns a failure.
\* where = <<>> stands for both None and [] (the executor tests truthiness).
_parse_where(where_clause) ==
    LET parsed(r) == [st |-> r.st, where |-> IF r.st = "ok" THEN r.conditions ELSE <<>>]
    IN parsed(ParseParts([st |-> "ok", conditions |-> <<>>, match |-> "unbound",
                          column |-> "?", value |-> STR], where_clause))

\* ============================ executor.py ===============================
\* a "<" between an int and None or text raises TypeError
Comparable(v) == v # NULL /\ v # STR

\* _evaluate_conditions for one row: "true", "false" or "raise"
RECURSIVE _evaluate_conditions(_, _)
_evaluate_conditions(data, conditions) ==
    IF conditions = <<>> THEN "true"
    ELSE LET c == Head(conditions)
             value == Get(data, c.column)
             op == c.operator
             r == IF op = "=" THEN (IF value # c.value THEN "false" ELSE "true")
                  ELSE IF op = "!=" THEN (IF value = c.value THEN "false" ELSE "true")
                  ELSE IF op = "IS NULL" THEN (IF value # NULL THEN "false" ELSE "true")
                  ELSE IF op = "IS NOT NULL" THEN (IF value = NULL THEN "false" ELSE "true")
                  ELSE IF value = NULL THEN "false"
                  ELSE IF ~Comparable(c.value) THEN "raise"
                  ELSE IF op = "<" THEN (IF value >= c.value THEN "false" ELSE "true")
                  ELSE IF op = "<=" THEN (IF value > c.value THEN "false" ELSE "true")
                  ELSE IF op = ">" THEN (IF value <= c.value THEN "false" ELSE "true")
                  ELSE (IF value < c.value THEN "false" ELSE "true")
         IN IF r = "true" THEN _evaluate_conditions(data, Tail(conditions)) ELSE r

\* rows = [row for row in select_all() if _evaluate_conditions(row, where)]
FilterRows(rows, where) ==
    IF where = <<>> THEN [st |-> "ok", rows |-> rows]
    ELSE IF \E i \in DOMAIN rows : _evaluate_conditions(rows[i].data, where) = "raise"
    THEN [st |-> "raise", rows |-> <<>>]
    ELSE [st |-> "ok",
          rows |-> SelectSeq(rows, LAMBDA r : _evaluate_conditions(r.data, where) = "true")]

\* The executor works on db = [schema, file, idxs]: the SchemaManager entry
\* of the table (<<>> when absent), its table file and its indexes.  A
\* handler returns the new db, the QueryResult (success, err) and "mids":
\* the (file, idxs) pairs as they are after each storage or index call.
NoSchema == <<>>
Snap(file, idxs) == [file |-> file, idxs |-> idxs]
SnapTrail(file, trail) == [i \in DOMAIN trail |-> Snap(file, trail[i])]
\* db.saved is the index file and db.disk the list of the writes made to
\* the data directory so far: what was written ("table", "index", or
\* "unlink" for a deleted file) and the two files once it is complete.
Disk(db, what, file, saved) ==
    [db EXCEPT !.saved = saved,
               !.disk = Append(@, [what |-> what, file |-> file, saved |-> saved])]
\* a TableStorage call that wrote the table file (written) or did not
Stored(db, file, written) ==
    IF written THEN Disk(db, "table", file, db.saved) ELSE db
\* an IndexManager call that ended in _save_indexes
Saved(db, file, idxs) ==
    IF idxs = <<>> THEN db ELSE Disk(db, "index", file, _save_indexes(db.saved, idxs))
\* storage.get_table, which creates the file of a table that has none
Opened(db) == Stored(db, get_table(db.file), ~db.file.exists)
\* create_index called for the indexes idxs[from..], one save each
RECURSIVE SavedEach(_, _, _, _)
SavedEach(db, file, idxs, from) ==
    IF from > Len(idxs) THEN db
    ELSE SavedEach(Saved(db, file, SubSeq(idxs, 1, from)), file, idxs, from + 1)
\* drop_index called for an index the table has
Dropped(db, file, idxs, column_name) ==
    Disk(db, IF Len(idxs) = 1 THEN "unlink" ELSE "index", file,
         DropSaved(db.saved, idxs, column_name))
\* Storage.drop_table: the table file, created first if there is none, is
\* deleted
Unlinked(db) == Disk(Opened(db), "unlink", NoFile, db.saved)
Result(db, schema, file, idxs, success, err, mids) ==
    [schema |-> schema, file |-> file, idxs |-> idxs,
     success |-> success, err |-> err, mids |-> mids,
     saved |-> db.saved, disk |-> db.disk]
Unchanged(db, err) == Result(db, db.schema, db.file, db.idxs, FALSE, err, <<>>)

\* variant of UniqueOk: the loop over get_unique_columns left out
UniqueOk_skip(schema, names, converted, existing, exclude_row_id) == TRUE

\* unique checks of INSERT / UPDATE: every column of get_unique_columns
UniqueOk(schema, names, converted, existing, exclude_row_id) ==
    \A i \in DOMAIN schema :
        (is_unique(schema[i]) /\ schema[i].name \in names) =>
            check_unique_constraint(schema, schema[i].name,
                                    Get(converted, schema[i].name),
                                    existing, exclude_row_id)

_execute_insert(db, row_data) ==
    LET indexed(d, ins, ix) ==
          LET m1 == <<Snap(ins.file, db.idxs)>> \o SnapTrail(ins.file, ix.trail)
              \* "Rollback storage insert"
              back == delete_by_id(ins.file, ins.row_id)
          IN IF ix.st = "ok"
             THEN Result(Saved(d, ins.file, ix.idxs), db.schema, ins.file, ix.idxs,
                         TRUE, "none", m1)
             ELSE IF ix.st = "fail"
             THEN Result(Stored(d, back, Finds(ins.file, ins.row_id)),
                         db.schema, back, ix.idxs, FALSE, "index",
                         Append(m1, Snap(back, ix.idxs)))
             ELSE \* the rollback inside insert_into_indexes raised
                  Result(d, db.schema, ins.file, ix.idxs, FALSE, "exec", m1)
        stored(d, converted, ins) ==
          indexed(Stored(d, ins.file, TRUE), ins,
                  insert_into_indexes(db.idxs, ins.row_id, converted))
        checked(d, converted, table) ==
          IF ~UniqueOk(db.schema, ColumnNames(db.schema), converted, select_all(table), 0)
          THEN Result(d, db.schema, table, db.idxs, FALSE, "unique", <<>>)
          ELSE stored(d, converted, TableStorage_insert(table, converted))
        validated(v) ==
          IF ~v.valid THEN Unchanged(db, "validation")
          ELSE checked(Opened(db), convert_row(db.schema, v.row_data),
                       get_table(db.file))
    IN IF db.schema = NoSchema THEN Unchanged(db, "no_table")
       ELSE validated(validate_row(db.schema, row_data))

\* st = "none": no usable index found (the source returns None)
RECURSIVE _get_candidate_rows_with_index(_, _)
_get_candidate_rows_with_index(idxs, conditions) ==
    IF conditions = <<>> THEN [st |-> "none", res |-> <<>>]
    ELSE LET condition == Head(conditions)
             p == IndexPos(idxs, condition.column)
         IN IF condition.operator = "=" /\ p # 0
            THEN Index_search(idxs[p], condition.value)
            ELSE IF condition.operator \in {">", ">=", "<", "<="} /\ p # 0
            THEN Index_range_search(idxs[p], condition.operator, condition.value)
            ELSE _get_candidate_rows_with_index(idxs, Tail(conditions))

\* rows = [table.select_by_id(row_id) for row_id in candidate_row_ids]
RECURSIVE FetchRows(_, _)
FetchRows(file, row_ids) ==
    IF row_ids = <<>> THEN <<>>
    ELSE select_by_id(file, Head(row_ids)) \o FetchRows(file, Tail(row_ids))

\* result_rows.sort(key=lambda r: r.get(col) if r.get(col) is not None
\* else "", reverse=reverse): a stable sort; a null counts as the text "".
\* A text sorts by its number (texts of digits of one length are stored).
SortRank(v) == IF v = NULL THEN 0 ELSE IF IsText(v) THEN NumberOf(v) + 1 ELSE v
\* "<" between a number and a text (or the "" of a null) raises
MixedKeys(rows, col) ==
    \E i, j \in DOMAIN rows :
        Get(rows[i], col) > 0 /\ Get(rows[j], col) <= 0
Precedes(x, y, col, reverse) ==
    IF reverse THEN SortRank(Get(x, col)) > SortRank(Get(y, col))
    ELSE SortRank(Get(x, col)) < SortRank(Get(y, col))
\* row x goes before the first sorted row it precedes
InsertStable(sorted, x, col, reverse) ==
    LET later == {i \in DOMAIN sorted : Precedes(x, sorted[i], col, reverse)}
        at == IF later = {} THEN Len(sorted)
              ELSE (CHOOSE i \in later : \A j \in later : i <= j) - 1
    IN InsertAt(sorted, at, x)
RECURSIVE SortLoop(_, _, _, _, _)
SortLoop(rows, col, reverse, i, sorted) ==
    IF i > Len(rows) THEN sorted
    ELSE SortLoop(rows, col, reverse, i + 1,
                  InsertStable(sorted, rows[i], col, reverse))

\* for col, direction in reversed(query.order_by): the keys from position k
\* down to the first
RECURSIVE OrderBy(_, _, _)
OrderBy(rows, order_by, k) ==
    IF k = 0 THEN [st |-> "ok", rows |-> rows]
    ELSE IF MixedKeys(rows, order_by[k][1]) THEN [st |-> "raise", rows |-> <<>>]
    ELSE OrderBy(SortLoop(rows, order_by[k][1], order_by[k][2] = "DESC", 1, <<>>),
                 order_by, k - 1)

\* query.limit and query.offset are <<>> (None) or <<n>>
Truthy(opt) == opt # <<>> /\ opt[1] # 0
\* the Python slice rows[from:to] (0-based, clamped to the list)
Slice(rows, from, to) ==
    IF from >= Len(rows) \/ to <= from THEN <<>>
    ELSE SubSeq(rows, from + 1, IF to > Len(rows) THEN Len(rows) ELSE to)

\* "if query.offset: rows[offset:]" then "if query.limit: rows[:limit]"
LimitOffset(rows, limit, offset) ==
    LET rest == IF Truthy(offset) THEN Slice(rows, offset[1], Len(rows)) ELSE rows
    IN IF Truthy(limit) THEN Slice(rest, 0, limit[1]) ELSE rest

\* SELECT * FROM t [WHERE ...] [ORDER BY ...] [LIMIT n [OFFSET m]]: no JOIN.
\* rows is the list of row.data returned.
_execute_select(db, where, order_by, limit, offset) ==
    LET answer(table, success, err, rows) ==
          [file |-> table, success |-> success, err |-> err, rows |-> rows]
        ordered(table, o) ==
          IF o.st = "raise" THEN answer(table, FALSE, "exec", <<>>)
          ELSE answer(table, TRUE, "none", LimitOffset(o.rows, limit, offset))
        filtered(table, sel) ==
          IF sel.st = "raise" THEN answer(table, FALSE, "exec", <<>>)
          ELSE ordered(table, OrderBy([i \in DOMAIN sel.rows |-> sel.rows[i].data],
                                      order_by, Len(order_by)))
        looked_up(table, cand) ==
          IF cand.st = "raise" THEN answer(table, FALSE, "exec", <<>>)
          ELSE IF cand.st = "none"
          THEN filtered(table, FilterRows(select_all(table), where))
          ELSE filtered(table, FilterRows(FetchRows(table, cand.res), where))
        opened(table) ==
          IF where # <<>>
          THEN looked_up(table, _get_candidate_rows_with_index(db.idxs, where))
          ELSE filtered(table, FilterRows(select_all(table), where))
    IN IF db.schema = NoSchema THEN answer(db.file, FALSE, "no_table", <<>>)
       ELSE opened(get_table(db.file))

\* the per-row loop of _execute_update over the rows selected at the start
RECURSIVE UpdateRows(_, _, _, _, _, _)
UpdateRows(db, file, idxs, mids, targets, updates) ==
    IF targets = <<>> THEN Result(db, db.schema, file, idxs, TRUE, "none", mids)
    ELSE LET row == Head(targets)
             old_data == row.data
             new_data == [c \in DOMAIN old_data \cup DOMAIN updates |->
                             IF c \in DOMAIN updates THEN updates[c] ELSE old_data[c]]
             indexed(f1, ix) ==
               LET m1 == mids \o <<Snap(f1, idxs)>> \o SnapTrail(f1, ix.trail)
                   back == update_by_id(f1, row.row_id, old_data)
                   d == Stored(db, f1, Finds(file, row.row_id))
               IN IF ix.st = "ok"
                  THEN UpdateRows(Saved(d, f1, ix.idxs), f1, ix.idxs, m1,
                                  Tail(targets), updates)
                  ELSE IF ix.st = "fail"
                  THEN Result(Stored(d, back, Finds(f1, row.row_id)),
                              db.schema, back, ix.idxs, FALSE, "index",
                              Append(m1, Snap(back, ix.idxs)))
                  ELSE Result(d, db.schema, f1, ix.idxs, FALSE, "exec", m1)
             stored(converted, f1) ==
               indexed(f1, update_indexes(idxs, row.row_id, old_data, converted))
             checked(converted) ==
               IF ~UniqueOk(db.schema, DOMAIN updates, converted, select_all(file),
                            row.row_id)
               THEN Result(db, db.schema, file, idxs, FALSE, "unique", mids)
               ELSE stored(converted, update_by_id(file, row.row_id, converted))
             validated(v) ==
               IF ~v.valid
               THEN Result(db, db.schema, file, idxs, FALSE, "validation", mids)
               ELSE checked(convert_row(db.schema, v.row_data))
         IN validated(validate_row(db.schema, new_data))

_execute_update(db, updates, where) ==
    LET selected(table, sel) ==
          IF sel.st = "raise"
          THEN Result(Opened(db), db.schema, table, db.idxs, FALSE, "exec", <<>>)
          ELSE UpdateRows(Opened(db), table, db.idxs, <<>>, sel.rows, updates)
        opened(table) == selected(table, FilterRows(select_all(table), where))
    IN IF db.schema = NoSchema THEN Unchanged(db, "no_table")
       ELSE opened(get_table(db.file))

RECURSIVE DeleteRows(_, _, _, _, _)
DeleteRows(db, file, idxs, mids, targets) ==
    IF targets = <<>> THEN Result(db, db.schema, file, idxs, TRUE, "none", mids)
    ELSE LET row == Head(targets)
             cleaned(ix) ==
               LET m1 == mids \o SnapTrail(file, ix.trail)
                   f1 == delete_by_id(file, row.row_id)
               IN IF ix.st = "raise"
                  THEN Result(db, db.schema, file, ix.idxs, FALSE, "exec", m1)
                  ELSE DeleteRows(Stored(Saved(db, file, ix.idxs), f1,
                                         Finds(file, row.row_id)),
                                  f1, ix.idxs, Append(m1, Snap(f1, ix.idxs)),
                                  Tail(targets))
         IN cleaned(delete_from_indexes(idxs, row.row_id, row.data))

_execute_delete(db, where) ==
    LET selected(table, sel) ==
          IF sel.st = "raise"
          THEN Result(Opened(db), db.schema, table, db.idxs, FALSE, "exec", <<>>)
          ELSE DeleteRows(Opened(db), table, db.idxs, <<>>, sel.rows)
        opened(table) == selected(table, FilterRows(select_all(table), where))
    IN IF db.schema = NoSchema THEN Unchanged(db, "no_table")
       ELSE opened(get_table(db.file))

\* implicit unique indexes of CREATE TABLE, in column order
RECURSIVE ImplicitIndexes(_, _, _)
ImplicitIndexes(idxs, columns, i) ==
    LET created(r) ==
          IF r.st = "raise" THEN r ELSE ImplicitIndexes(r.idxs, columns, i + 1)
    IN IF i > Len(columns) THEN [st |-> "ok", idxs |-> idxs]
       ELSE IF is_primary_key(columns[i]) \/ is_unique(columns[i])
            THEN created(create_index(idxs, columns[i].name, TRUE))
            ELSE ImplicitIndexes(idxs, columns, i + 1)

\* Schema.__init__ keeps the columns in a dict by name: a name declared
\* twice stays at the place of its first declaration with its last one.
\* (_validate_schema then compares the size of this dict with the number of
\* its keys, which are always equal.)
RECURSIVE SchemaColumns(_, _)
SchemaColumns(columns, i) ==
    IF i > Len(columns) THEN <<>>
    ELSE IF \E j \in 1..(i - 1) : columns[j].name = columns[i].name
    THEN SchemaColumns(columns, i + 1)
    ELSE <<columns[CHOOSE j \in i..Len(columns) :
                      /\ columns[j].name = columns[i].name
                      /\ \A k \in (j + 1)..Len(columns) :
                            columns[k].name # columns[i].name]>>
         \o SchemaColumns(columns, i + 1)

\* the loop that turns the parsed column definitions into Columns: the
\* first definition it cannot take ends the statement
RECURSIVE BuildColumns(_, _)
BuildColumns(columns, i) ==
    IF i > Len(columns) THEN "none"
    ELSE IF columns[i].data_type \notin DataTypes THEN "unknown_type"
    ELSE IF ~(columns[i].constraints \subseteq {"PRIMARY_KEY", "UNIQUE", "NOT_NULL"})
    THEN "unknown_constraint"
    ELSE IF columns[i].data_type = "VARCHAR" /\ columns[i].max_length = NoLength
    THEN "exec"
    ELSE BuildColumns(columns, i + 1)

\* create_schema, whose Schema() raises on a second PRIMARY KEY, then
\* storage.get_table, then an index for each PRIMARY KEY / UNIQUE column of
\* the column list
_execute_create_table(db, columns) ==
    LET indexed(schema, table, r) ==
          Result(SavedEach(Opened(db), table, r.idxs, Len(db.idxs) + 1),
                 schema, table, r.idxs, r.st = "ok",
                 IF r.st = "ok" THEN "none" ELSE "exec", <<>>)
        registered(schema) ==
          IF Cardinality({i \in DOMAIN schema : is_primary_key(schema[i])}) > 1
          THEN Unchanged(db, "exec")
          ELSE indexed(schema, get_table(db.file),
                       ImplicitIndexes(db.idxs, columns, 1))
        built(err) ==
          IF err # "none" THEN Unchanged(db, err)
          ELSE registered(SchemaColumns(columns, 1))
    IN IF db.schema # NoSchema THEN Unchanged(db, "exists")
       ELSE built(BuildColumns(columns, 1))

\* the loop of DROP TABLE over list_indexes(table)
RECURSIVE DropIndexes(_, _, _)
DropIndexes(idxs, names, i) ==
    IF i > Len(names) THEN idxs
    ELSE DropIndexes(drop_index(idxs, names[i]), names, i + 1)

\* the indexes as they are after each drop_index of that loop
RECURSIVE DropTrail(_, _, _)
DropTrail(idxs, names, i) ==
    IF i > Len(names) THEN <<>>
    ELSE <<drop_index(idxs, names[i])>>
         \o DropTrail(drop_index(idxs, names[i]), names, i + 1)

\* and the writes of that loop
RECURSIVE DropDisk(_, _, _, _)
DropDisk(db, idxs, names, i) ==
    IF i > Len(names) THEN db
    ELSE DropDisk(IF IndexPos(idxs, names[i]) = 0 THEN db
                  ELSE Dropped(db, db.file, idxs, names[i]),
                  drop_index(idxs, names[i]), names, i + 1)

\* variant of _execute_drop_table: the storage dropped before the indexes
_execute_drop_table_storage_first(db) ==
    LET names == list_indexes(db.idxs)
        dropped(idxs) ==
          Result(DropDisk([Unlinked(db) EXCEPT !.file = NoFile], db.idxs, names, 1),
                 NoSchema, drop_table(db.file), idxs, TRUE, "none",
                 <<Snap(NoFile, db.idxs)>>
                 \o SnapTrail(NoFile, DropTrail(db.idxs, names, 1)))
    IN IF db.schema = NoSchema THEN Unchanged(db, "no_table")
       ELSE dropped(DropIndexes(db.idxs, names, 1))

\* the indexes are dropped, then the schema, then the storage.  mids: the
\* table after each drop_index and after drop_schema, the file still there
_execute_drop_table(db) ==
    LET names == list_indexes(db.idxs)
        dropped(idxs) ==
          Result(Unlinked(DropDisk(db, db.idxs, names, 1)),
                 NoSchema, drop_table(db.file), idxs, TRUE, "none",
                 SnapTrail(db.file, DropTrail(db.idxs, names, 1))
                 \o <<Snap(db.file, idxs)>>)
    IN IF db.schema = NoSchema THEN Unchanged(db, "no_table")
       ELSE dropped(DropIndexes(db.idxs, names, 1))

_execute_create_index(db, column_name, unique) ==
    LET rebuilt(d, table, r) ==
          Result(IF r.st = "ok" THEN Saved(d, table, r.idxs) ELSE d,
                 db.schema, table, r.idxs, r.st = "ok",
                 IF r.st = "ok" THEN "none" ELSE "exec", <<>>)
        created(c, table) ==
          rebuilt(Stored(Saved(db, db.file, c.idxs), table, ~db.file.exists),
                  table, rebuild_index(c.idxs, column_name, select_all(table)))
    IN IF db.schema = NoSchema THEN Unchanged(db, "no_table")
       ELSE IF column_name \notin ColumnNames(db.schema) THEN Unchanged(db, "no_column")
       ELSE IF has_index(db.idxs, column_name) THEN Unchanged(db, "exists")
       ELSE created(create_index(db.idxs, column_name, unique), get_table(db.file))

\* DROP INDEX looks the index up under query.index_name
_execute_drop_index(db, index_name) ==
    IF ~has_index(db.idxs, index_name) THEN Unchanged(db, "no_index")
    ELSE Result(Dropped(db, db.file, db.idxs, index_name),
                db.schema, db.file, drop_index(db.idxs, index_name),
                TRUE, "none", <<>>)

\* ============================ database.py ===============================
\* catalog["tables"][t] (registered, row_count) and catalog["indexes"], the
\* descriptors keyed "t.column": at most one per column.  register_table
\* writes the keys created_at, schema, row_count and last_modified; "added"
\* holds every other key of the entry with its value, as <<key, value>>.
NoTableEntry ==
    [registered |-> FALSE, schema |-> NoSchema, row_count |-> 0, added |-> {}]
EmptyCatalog == [table |-> NoTableEntry, indexes |-> {}]

register_table(cat, schema) ==
    [cat EXCEPT !.table = [registered |-> TRUE, schema |-> schema, row_count |-> 0,
                           added |-> {}]]

unregister_table(cat) == [table |-> NoTableEntry, indexes |-> {}]

register_index(cat, column_name, index_name, unique) ==
    [cat EXCEPT !.indexes =
        {d \in @ : d.column # column_name} \cup
        {[column |-> column_name, name |-> index_name, unique |-> unique]}]

unregister_index(cat, column_name) ==
    [cat EXCEPT !.indexes = {d \in @ : d.column # column_name}]

update_table_stats(cat, row_count) ==
    IF cat.table.registered THEN [cat EXCEPT !.table.row_count = row_count] ELSE cat

\* The methods of Database that report on the database.  res is the value
\* returned, <<>> for None; cat and file are the catalog and the table file
\* as the call leaves them.
\* DatabaseCatalog.get_all_tables
get_all_tables(cat) == IF cat.table.registered THEN <<"t">> ELSE <<>>

list_tables(cat) == get_all_tables(cat)

\* describe_table: table_info is the entry of the catalog itself, and the
\* keys "columns" and "indexes" are set in it
describe_table(cat, schema) ==
    LET table_info == [cat.table EXCEPT !.added =
                          {<<"columns", schema>>, <<"indexes", cat.indexes>>}]
    IN IF ~cat.table.registered THEN [res |-> <<>>, cat |-> cat]
       ELSE IF schema = NoSchema THEN [res |-> <<cat.table>>, cat |-> cat]
       ELSE [res |-> <<table_info>>, cat |-> [cat EXCEPT !.table = table_info]]

\* Index.get_stats
RECURSIVE TotalEntries(_, _)
TotalEntries(node, i) ==
    IF i > Len(node.keys) THEN 0 ELSE Len(node.values[i]) + TotalEntries(node, i + 1)
get_stats(index) ==
    [column |-> index.column_name, unique |-> index.unique,
     distinct_keys |-> Len(index.root.keys),
     total_entries |-> TotalEntries(index.root, 1)]

get_table_stats(cat, file, idxs) ==
    IF ~cat.table.registered THEN [res |-> <<>>, file |-> file]
    ELSE [res |-> <<[row_count |-> count(get_table(file)),
                     indexes |-> [i \in DOMAIN idxs |-> get_stats(idxs[i])]]>>,
          file |-> get_table(file)]

get_database_info(cat, file) ==
    IF ~cat.table.registered
    THEN [res |-> [total_tables |-> 0, total_rows |-> 0, tables |-> <<>>,
                   total_indexes |-> Cardinality(cat.indexes)],
          file |-> file]
    ELSE [res |-> [total_tables |-> 1, total_rows |-> count(get_table(file)),
                   tables |-> list_tables(cat),
                   total_indexes |-> Cardinality(cat.indexes)],
          file |-> get_table(file)]

\* ---- the state ----
VARIABLES
    schemas,    \* SchemaManager.schemas[t]: the column list, <<>> if absent
    storage,    \* the table file of t
    indexes,    \* IndexManager.indexes[t]
    index_file, \* the index file of t
    crashes,    \* how many times the process ended inside a statement
    catalog,    \* DatabaseCatalog.catalog
    last,       \* the last statement and the QueryResult execute() returned
    threads,    \* per thread: the execute() call it is in and its locals
    base        \* the table as it was when the running statements began

vars == <<schemas, storage, indexes, index_file, crashes, catalog, last, threads,
          base>>

Db == [schema |-> schemas, file |-> storage, idxs |-> indexes,
       saved |-> index_file, disk |-> <<>>]

\* ---- statements offered to execute() ----
\* CREATE TABLE t (id INTEGER PRIMARY KEY, a INTEGER)
\* CREATE TABLE t (id INTEGER PRIMARY KEY, a INTEGER UNIQUE)
TableDefs ==
    {<<Column("id", {"PRIMARY_KEY"}, NULL), Column("a", {}, NULL)>>,
     <<Column("id", {"PRIMARY_KEY"}, NULL), Column("a", {"UNIQUE"}, NULL)>>}

InsertCols == {"id", "a"}
\* CREATE INDEX / DROP INDEX are offered for these columns and names; the
\* tables have no column b
IndexCols == {"a", "id", "b"}
IndexNames == {"a", "ix"}
\* CREATE [UNIQUE] INDEX <index_name> ON t(<column_name>)
IndexKinds ==
    {<<n, "a", u>> : n \in IndexNames, u \in BOOLEAN}
    \cup {<<"ix", c, FALSE>> : c \in IndexCols}

WhereTexts ==
    {<<>>}
    \cup {<< <<"id", "=", Tok(v)>> >> : v \in 1..MaxVal}
    \cup {<< <<"a", "=", "1">> >>,
          << <<"a", "IN", "(1)">> >>,
          << <<"id", "=", "1", "OR", "id", "=", "2">> >>,
          << <<"id", "=", "1">>, <<"a", "=", "1", "=", "2">> >>}

UpdateSets ==
    {u \in UNION {[D -> Literals] : D \in SUBSET InsertCols} :
        Cardinality(DOMAIN u) \in 1..2}

\* no statement is in hand: execute() has returned and its result was taken
NoLast == [type |-> "none", q |-> <<>>, success |-> TRUE, err |-> "none",
           mids |-> <<>>]
Idle == last = NoLast

\* a thread that is not inside execute()
Threads == {1, 2}
IdleThread == [pc |-> "idle", type |-> "none", q |-> <<>>, where |-> <<>>,
               targets |-> <<>>, converted |-> <<>>,
               success |-> TRUE, err |-> "none", rows |-> <<>>]
NoBase == [file |-> NoFile, idxs |-> <<>>]

Init ==
    /\ schemas = NoSchema
    /\ storage = NoFile
    /\ indexes = <<>>
    /\ index_file = NoIndexFile
    /\ crashes = 0
    /\ catalog = EmptyCatalog
    /\ last = NoLast
    /\ threads = [t \in Threads |-> IdleThread]
    /\ base = NoBase

\* Database.execute after a successful parse: run the executor, then
\* _update_catalog_after_query when the result is a success.
Finish(type, q, r, cat) ==
    /\ schemas' = r.schema
    /\ storage' = r.file
    /\ indexes' = r.idxs
    /\ index_file' = r.saved
    /\ catalog' = IF r.success THEN cat ELSE catalog
    /\ last' = [type |-> type, q |-> q, success |-> r.success, err |-> r.err,
                mids |-> r.mids]
    /\ UNCHANGED <<crashes, threads, base>>

\* parse() raised: execute() returns a failure, nothing else happens
ParseFailure(type, q) ==
    /\ UNCHANGED <<schemas, storage, indexes, index_file, crashes, catalog, threads, base>>
    /\ last' = [type |-> type, q |-> q, success |-> FALSE, err |-> "parse",
                mids |-> <<>>]

StatsAfter(r) == update_table_stats(catalog, count(get_table(r.file)))
\* _update_catalog_after_query calls storage.get_table on a DML success
WithTable(r) == [r EXCEPT !.file = IF r.success THEN get_table(@) ELSE @]

CreateTableOf(defs) ==
    /\ Idle
    /\ \E columns \in defs :
        LET done(r) == Finish("CREATE_TABLE", [columns |-> columns], r,
                              register_table(catalog, r.schema))
        IN done(_execute_create_table(Db, columns))

DropTable ==
    /\ Idle
    /\ Finish("DROP_TABLE", <<>>, _execute_drop_table(Db), unregister_table(catalog))

\* CREATE [UNIQUE] INDEX <index_name> ON t(<column_name>), the statements
\* offered being kinds = {<<index_name, column_name, unique>>}
CreateIndexOf(kinds) ==
    /\ Idle
    /\ \E k \in kinds :
        LET index_name == k[1]
            column_name == k[2]
            unique == k[3]
            done(r) ==
              Finish("CREATE_INDEX",
                     [index_name |-> index_name, column_name |-> column_name,
                      unique |-> unique], r,
                     register_index(catalog, column_name, index_name, unique))
        IN done(_execute_create_index(Db, column_name, unique))

DropIndex ==
    /\ Idle
    /\ \E index_name \in IndexNames :
        Finish("DROP_INDEX", [index_name |-> index_name],
               _execute_drop_index(Db, index_name),
               unregister_index(catalog, index_name))

\* INSERT INTO t (<columns>) VALUES (...), the rows offered being "rows"
InsertOf(rows) ==
    /\ Idle
    /\ get_table(storage).next_id <= MaxId
    /\ \E row_data \in rows :
        LET done(r) == Finish("INSERT", [row_data |-> row_data], r, StatsAfter(r))
        IN done(WithTable(_execute_insert(Db, row_data)))

UpdateOf(sets, texts) ==
    /\ Idle
    /\ \E updates \in sets, text \in texts :
        LET q == [updates |-> updates, text |-> text]
            done(r) == Finish("UPDATE", q, r, StatsAfter(r))
            parsed(p) ==
              IF p.st = "raise" THEN ParseFailure("UPDATE", q)
              ELSE done(WithTable(_execute_update(Db, updates, p.where)))
        IN parsed(_parse_where(text))

DeleteOf(texts) ==
    /\ Idle
    /\ \E text \in texts :
        LET q == [text |-> text]
            done(r) == Finish("DELETE", q, r, StatsAfter(r))
            parsed(p) ==
              IF p.st = "raise" THEN ParseFailure("DELETE", q)
              ELSE done(WithTable(_execute_delete(Db, p.where)))
        IN parsed(_parse_where(text))

\* SELECT * FROM t [WHERE <text>]; mids is the list of rows returned
SelectOf(texts, orders, limits) ==
    /\ Idle
    /\ \E text \in texts, order_by \in orders, lim \in limits :
        LET q == [text |-> text, order_by |-> order_by,
                  limit |-> lim[1], offset |-> lim[2]]
            done(r) ==
              /\ storage' = r.file
              /\ last' = [type |-> "SELECT", q |-> q, success |-> r.success,
                          err |-> r.err, mids |-> r.rows]
              /\ UNCHANGED <<schemas, indexes, index_file, crashes, catalog, threads, base>>
            parsed(p) ==
              IF p.st = "raise" THEN ParseFailure("SELECT", q)
              ELSE done(_execute_select(Db, p.where, order_by, lim[1], lim[2]))
        IN parsed(_parse_where(text))

\* no ORDER BY; no LIMIT
NoOrder == {<<>>}
NoLimit == {<< <<>>, <<>> >>}

\* WHERE a = 1 | a >= 1 | a < 2 | a = x | id = 1 AND a = 1 | a != 2 AND id <= 1
SelectTexts ==
    {<<>>,
     << <<"a", "=", "1">> >>,
     << <<"a", ">=", "1">> >>,
     << <<"a", "<", "2">> >>,
     << <<"a", "=", "x">> >>,
     << <<"id", "=", "1">>, <<"a", "=", "1">> >>,
     << <<"a", "!=", "2">>, <<"id", "<=", "1">> >>}

CreateTable == CreateTableOf(TableDefs)
Select == SelectOf(SelectTexts, NoOrder, NoLimit)
Delete == DeleteOf(WhereTexts)
CreateIndex == CreateIndexOf(IndexKinds)
Insert == InsertOf([InsertCols -> Literals])
Update == UpdateOf(UpdateSets, WhereTexts)

\* execute() returns; the caller takes the QueryResult
Return ==
    /\ ~Idle
    /\ last' = NoLast
    /\ UNCHANGED <<schemas, storage, indexes, index_file, crashes, catalog, threads, base>>

Next ==
    \/ CreateTable
    \/ DropTable
    \/ CreateIndex
    \/ DropIndex
    \/ Insert
    \/ Update
    \/ Delete
    \/ Select
    \/ Return

Spec == Init /\ [][Next]_vars

\* ---- a table without PRIMARY KEY, its indexes made by CREATE INDEX ----
\* CREATE TABLE t (e INTEGER, a INTEGER)
TableDefsNK == {<<Column("e", {}, NULL), Column("a", {}, NULL)>>}
\* CREATE INDEX e ON t(e), CREATE UNIQUE INDEX a ON t(a)
IndexKindsNK == {<<"e", "e", FALSE>>, <<"a", "a", TRUE>>}
\* INSERT INTO t (a) VALUES (...)
InsertRowsNK == [{"a"} -> Literals]
\* UPDATE t SET [e = NULL | 1] [,] [a = ...] [WHERE a = v]
UpdateSetsNK ==
    {u \in UNION {[D -> Literals] : D \in SUBSET {"e", "a"}} :
        DOMAIN u # {} /\ ("e" \in DOMAIN u => u["e"] \in {NULL, 1})}
WhereTextsNK == {<<>>} \cup {<< <<"a", "=", Tok(v)>> >> : v \in 1..MaxVal}

CreateTableNK == CreateTableOf(TableDefsNK)
CreateIndexNK == CreateIndexOf(IndexKindsNK)
InsertNK == InsertOf(InsertRowsNK)
UpdateNK == UpdateOf(UpdateSetsNK, WhereTextsNK)
DeleteNK == DeleteOf(WhereTextsNK)

NextNK ==
    \/ CreateTableNK
    \/ CreateIndexNK
    \/ InsertNK
    \/ UpdateNK
    \/ DeleteNK
    \/ Return

SpecNK == Init /\ [][NextNK]_vars

\* ---- CREATE TABLE statements of every kind, and a VARCHAR column ----
\* CREATE TABLE t (id INTEGER PRIMARY KEY, n VARCHAR(1) NOT NULL)
\* CREATE TABLE t (id INTEGER NOT NULL, n VARCHAR(1) DEFAULT 10)
\* CREATE TABLE t (n INTEGER, n VARCHAR(1))
\* CREATE TABLE t (id INTEGER UNIQUE, id INTEGER UNIQUE)
\* CREATE TABLE t (id BLOB)
\* CREATE TABLE t (id INTEGER PRIMARY KEY, n VARCHAR)
\* CREATE TABLE t (id INTEGER PRIMARY KEY, n VARCHAR(0))
\* CREATE TABLE t (id INTEGER NOT NULL, n INTEGER DEFAULT 1)
\* CREATE TABLE t (id INTEGER PRIMARY KEY, n INTEGER PRIMARY KEY)
TableDefsCT ==
    {<<Column("id", {"PRIMARY_KEY"}, NULL),
       ColumnOf("n", "VARCHAR", 1, {"NOT_NULL"}, NULL)>>,
     <<Column("id", {"NOT_NULL"}, NULL),
       ColumnOf("n", "VARCHAR", 1, {}, 10)>>,
     <<Column("n", {}, NULL), ColumnOf("n", "VARCHAR", 1, {}, NULL)>>,
     <<Column("id", {"UNIQUE"}, NULL), Column("id", {"UNIQUE"}, NULL)>>,
     <<ColumnOf("id", "BLOB", NoLength, {}, NULL)>>,
     <<Column("id", {"PRIMARY_KEY"}, NULL),
       ColumnOf("n", "VARCHAR", NoLength, {}, NULL)>>,
     <<Column("id", {"PRIMARY_KEY"}, NULL),
       ColumnOf("n", "VARCHAR", 0, {}, NULL)>>,
     <<Column("id", {"NOT_NULL"}, NULL), Column("n", {}, 1)>>,
     <<Column("id", {"PRIMARY_KEY"}, NULL), Column("n", {"PRIMARY_KEY"}, NULL)>>}
\* the number 10 renders with two characters
LongVal == 10
\* INSERT INTO t (id, n) VALUES (NULL | 1 | 2, NULL | 1 | 10),
\* INSERT INTO t (id) VALUES (NULL | 1 | 2)
InsertRowsCT ==
    {r \in [{"id", "n"} -> {NULL, 1, 2, LongVal}] :
        r["id"] # LongVal /\ r["n"] # 2}
    \cup [{"id"} -> {NULL, 1, 2}]
\* UPDATE t SET n = NULL | 2 | 10, UPDATE t SET id = NULL | 2 [WHERE id = 1]
UpdateSetsCT ==
    {[n |-> v] : v \in {NULL, 2, LongVal}} \cup {[id |-> v] : v \in {NULL, 2}}
WhereTextsCT == {<<>>, << <<"id", "=", "1">> >>}

CreateTableCT == CreateTableOf(TableDefsCT)
InsertCT == InsertOf(InsertRowsCT)
UpdateCT == UpdateOf(UpdateSetsCT, WhereTextsCT)
DeleteCT == DeleteOf(WhereTextsCT)

NextCT ==
    \/ CreateTableCT
    \/ DropTable
    \/ InsertCT
    \/ UpdateCT
    \/ DeleteCT
    \/ Return

SpecCT == Init /\ [][NextCT]_vars

\* ---- the process ends and a new Database opens the data directory ----
\* Schema.from_dict / Column.from_dict on what to_dict wrote to the catalog:
\* each column goes through Column() again, the list through Schema()
Schema_from_dict(columns) ==
    SchemaColumns([i \in DOMAIN columns |->
                      ColumnOf(columns[i].name, columns[i].data_type,
                               columns[i].max_length, columns[i].constraints,
                               columns[i].default)], 1)

\* _load_schemas_from_catalog
_load_schemas_from_catalog(cat) ==
    IF cat.table.registered THEN Schema_from_dict(cat.table.schema) ELSE NoSchema

\* Database.__init__ on a data directory holding the table file "file", the
\* index file and the catalog "cat".  No table file is opened.  The
\* constructor returns normally whatever it finds: a file it cannot load is
\* skipped, and nothing is checked against anything else.
Database_init(type, q, file, saved, cat, mids) ==
    /\ storage' = file
    /\ index_file' = saved
    /\ catalog' = cat
    /\ schemas' = _load_schemas_from_catalog(cat)
    /\ indexes' = _load_indexes(saved)
    /\ last' = [type |-> type, q |-> q, success |-> TRUE, err |-> "none",
                mids |-> mids]
    /\ UNCHANGED <<threads, base>>

\* the Database is closed between two statements and opened again
Reopen ==
    /\ Idle
    /\ Database_init("OPEN", <<>>, storage, index_file, catalog, <<>>)
    /\ UNCHANGED crashes

\* The process ends inside a statement whose executor run is r, and a new
\* Database is opened.  r.disk lists the writes of the run; the process
\* ends with the first "at" of them complete, and
\*   how = "done":    between two writes (or before the first, after the last)
\*   how = "torn":    inside write "at", its file truncated or half written
\*   how = "catalog": inside the write of catalog.json that follows a
\*                    success; _load_catalog replaces a catalog it cannot
\*                    parse by an empty one
\* A deleted file is either there or not.  mids is r.disk.
MaxCrashes == 1    \* the process ends inside a statement at most so often
CrashIn(type, args, r, registers) ==
    \E at \in 0..Len(r.disk), how \in {"done", "torn", "catalog"} :
        LET file_at(k) == IF k = 0 THEN storage ELSE r.disk[k].file
            saved_at(k) == IF k = 0 THEN index_file ELSE r.disk[k].saved
            q == [type |-> type, args |-> args, at |-> at, how |-> how]
        IN /\ crashes < MaxCrashes
           /\ crashes' = crashes + 1
           /\ how = "torn" => (at >= 1 /\ r.disk[at].what # "unlink")
           /\ how = "catalog" => (at = Len(r.disk) /\ r.success /\ registers)
           /\ IF how = "torn" /\ r.disk[at].what = "table"
              THEN Database_init("CRASH", q, TornFile, saved_at(at - 1), catalog, r.disk)
              ELSE IF how = "torn"
              THEN Database_init("CRASH", q, file_at(at - 1), TornIndexFile, catalog,
                                 r.disk)
              ELSE Database_init("CRASH", q, file_at(at), saved_at(at),
                                 IF how = "catalog" THEN EmptyCatalog ELSE catalog,
                                 r.disk)

\* CREATE TABLE t (id INTEGER PRIMARY KEY, a INTEGER)
\* CREATE TABLE t (id INTEGER UNIQUE, id INTEGER UNIQUE)
TableDefsCR ==
    {<<Column("id", {"PRIMARY_KEY"}, NULL), Column("a", {}, NULL)>>,
     <<Column("id", {"UNIQUE"}, NULL), Column("id", {"UNIQUE"}, NULL)>>}
\* CREATE [UNIQUE] INDEX a ON t(a)
IndexKindsCR == {<<"a", "a", u>> : u \in BOOLEAN}
\* INSERT INTO t (id, a) VALUES (v, 1 | NULL)
InsertRowsCR == {[id |-> v, a |-> w] : v \in 1..MaxVal, w \in {NULL, 1}}
\* UPDATE t SET a = 1 | a = 2 | id = 2  [WHERE id = 1]
UpdateSetsCR == {[a |-> 1], [a |-> 2], [id |-> 2]}
WhereTextsCR == {<<>>, << <<"id", "=", "1">> >>}

CreateTableCR == CreateTableOf(TableDefsCR)
CreateIndexCR == CreateIndexOf(IndexKindsCR)
InsertCR == InsertOf(InsertRowsCR)
UpdateCR == UpdateOf(UpdateSetsCR, WhereTextsCR)
DeleteCR == DeleteOf(WhereTextsCR)

CrashInsert ==
    /\ Idle
    /\ get_table(storage).next_id <= MaxId
    /\ \E row_data \in InsertRowsCR :
        CrashIn("INSERT", [row_data |-> row_data], _execute_insert(Db, row_data),
                catalog.table.registered)

CrashUpdate ==
    /\ Idle
    /\ \E updates \in UpdateSetsCR, text \in WhereTextsCR :
        CrashIn("UPDATE", [updates |-> updates, text |-> text],
                _execute_update(Db, updates, _parse_where(text).where),
                catalog.table.registered)

CrashDelete ==
    /\ Idle
    /\ \E text \in WhereTextsCR :
        CrashIn("DELETE", [text |-> text],
                _execute_delete(Db, _parse_where(text).where),
                catalog.table.registered)

CrashDropTable ==
    /\ Idle
    /\ CrashIn("DROP_TABLE", <<>>, _execute_drop_table(Db), TRUE)

NextCR ==
    \/ CreateTableCR
    \/ DropTable
    \/ CreateIndexCR
    \/ DropIndex
    \/ InsertCR
    \/ UpdateCR
    \/ DeleteCR
    \/ Reopen
    \/ CrashInsert
    \/ CrashUpdate
    \/ CrashDelete
    \/ CrashDropTable
    \/ Return

SpecCR == Init /\ [][NextCR]_vars

\* ---- statements running in two threads on one Database object ----
\* No lock is held across execute(): a thread holds the table's storage lock
\* or an index lock only inside one storage or index call.  A step of a
\* thread is one call on the shared storage, IndexManager or catalog,
\* together with the thread's own computation before the next call.  The
\* Index calls of one IndexManager call are taken in one step, and so is the
\* whole of a SELECT: schedules that switch inside them are not explored.
\* CREATE TABLE t (id INTEGER PRIMARY KEY, a INTEGER)
TableDefsMT == {<<Column("id", {"PRIMARY_KEY"}, NULL), Column("a", {}, NULL)>>}
InsertRowsMT == [InsertCols -> Literals]
\* UPDATE t SET a = v | id = 2  [WHERE id = 1]
UpdateSetsMT == {[a |-> v] : v \in 1..MaxVal} \cup {[id |-> 2]}
WhereTextsMT == {<<>>, << <<"id", "=", "1">> >>}
\* SELECT * FROM t [WHERE id = 1 | WHERE a = 1]
SelectTextsMT == {<<>>, << <<"id", "=", "1">> >>, << <<"a", "=", "1">> >>}

AllIdle == \A t \in Threads : threads[t].pc = "idle"
CreateTableMT == AllIdle /\ CreateTableOf(TableDefsMT)
InsertMT == AllIdle /\ InsertOf(InsertRowsMT)

\* the thread's execute() has its QueryResult
Done(th, success, err, rows) ==
    [th EXCEPT !.pc = "done", !.success = success, !.err = err, !.rows = rows,
               !.targets = <<>>, !.converted = <<>>]

\* thread t calls execute(sql): the statement is parsed
BeginOf(t, type, q, text) ==
    LET parsed(p) ==
          IF p.st = "raise"
          THEN Done([IdleThread EXCEPT !.type = type, !.q = q], FALSE, "parse", <<>>)
          ELSE [IdleThread EXCEPT !.pc = "scan", !.type = type, !.q = q,
                                  !.where = p.where]
    IN /\ Idle
       /\ threads[t].pc = "idle"
       /\ \A u \in Threads : threads[u].pc # "done"
       /\ threads' = [threads EXCEPT ![t] = parsed(_parse_where(text))]
       /\ base' = IF AllIdle THEN Snap(storage, indexes) ELSE base
       /\ UNCHANGED <<schemas, storage, indexes, index_file, crashes, catalog, last>>

BeginUpdate ==
    \E t \in Threads, updates \in UpdateSetsMT, text \in WhereTextsMT :
        BeginOf(t, "UPDATE", [updates |-> updates, text |-> text], text)

BeginDelete ==
    \E t \in Threads, text \in WhereTextsMT :
        BeginOf(t, "DELETE", [text |-> text], text)

BeginSelect ==
    \E t \in Threads, text \in SelectTextsMT :
        BeginOf(t, "SELECT", [text |-> text], text)

\* _execute_select, in one step
SelectRows ==
    \E t \in Threads :
        LET th == threads[t]
            done(r) ==
              /\ storage' = r.file
              /\ threads' = [threads EXCEPT ![t] = Done(th, r.success, r.err, r.rows)]
        IN /\ th.pc = "scan" /\ th.type = "SELECT"
           /\ done(_execute_select(Db, th.where, <<>>, <<>>, <<>>))
           /\ UNCHANGED <<schemas, indexes, index_file, crashes, catalog, last, base>>

\* _execute_update / _execute_delete up to the list of rows to work on:
\* get_schema, get_table, select_all, the WHERE filter
ScanRows ==
    \E t \in Threads :
        LET th == threads[t]
            selected(sel) ==
              IF sel.st = "raise" THEN Done(th, FALSE, "exec", <<>>)
              ELSE IF sel.rows = <<>> THEN [th EXCEPT !.pc = "stats"]
              ELSE [th EXCEPT !.targets = sel.rows,
                              !.pc = IF th.type = "UPDATE" THEN "check"
                                     ELSE "del_index"]
        IN /\ th.pc = "scan" /\ th.type \in {"UPDATE", "DELETE"}
           /\ IF schemas = NoSchema
              THEN /\ threads' = [threads EXCEPT ![t] = Done(th, FALSE, "no_table", <<>>)]
                   /\ UNCHANGED storage
              ELSE /\ storage' = get_table(storage)
                   /\ threads' = [threads EXCEPT ![t] =
                         selected(FilterRows(select_all(get_table(storage)), th.where))]
           /\ UNCHANGED <<schemas, indexes, index_file, crashes, catalog, last, base>>

\* UPDATE, one row: validate_row, convert_row, select_all, the unique checks
CheckRow ==
    \E t \in Threads :
        LET th == threads[t]
            row == Head(th.targets)
            new_data == [c \in DOMAIN row.data \cup DOMAIN th.q.updates |->
                            IF c \in DOMAIN th.q.updates THEN th.q.updates[c]
                            ELSE row.data[c]]
            checked(converted) ==
              IF ~UniqueOk(schemas, DOMAIN th.q.updates, converted,
                           select_all(storage), row.row_id)
              THEN Done(th, FALSE, "unique", <<>>)
              ELSE [th EXCEPT !.pc = "store", !.converted = converted]
            validated(v) ==
              IF ~v.valid THEN Done(th, FALSE, "validation", <<>>)
              ELSE checked(convert_row(schemas, v.row_data))
        IN /\ th.pc = "check"
           /\ threads' = [threads EXCEPT ![t] = validated(validate_row(schemas, new_data))]
           /\ UNCHANGED <<schemas, storage, indexes, index_file, crashes, catalog, last, base>>

\* UPDATE, one row: table.update_by_id(row.row_id, converted)
StoreRow ==
    \E t \in Threads :
        LET th == threads[t] IN
        /\ th.pc = "store"
        /\ storage' = update_by_id(storage, Head(th.targets).row_id, th.converted)
        /\ threads' = [threads EXCEPT ![t].pc = "index"]
        /\ UNCHANGED <<schemas, indexes, index_file, crashes, catalog, last, base>>

\* UPDATE, one row: index_manager.update_indexes(row_id, old_data, converted)
IndexRow ==
    \E t \in Threads :
        LET th == threads[t]
            row == Head(th.targets)
            updated(ix) ==
              /\ indexes' = ix.idxs
              /\ index_file' = IF ix.st = "ok" THEN _save_indexes(index_file, ix.idxs)
                                ELSE index_file
              /\ UNCHANGED crashes
              /\ threads' = [threads EXCEPT ![t] =
                    IF ix.st = "ok"
                    THEN [th EXCEPT !.targets = Tail(@), !.converted = <<>>,
                                    !.pc = IF Tail(th.targets) = <<>> THEN "stats"
                                           ELSE "check"]
                    ELSE IF ix.st = "fail" THEN [th EXCEPT !.pc = "rollback"]
                    ELSE Done(th, FALSE, "exec", <<>>)]
        IN /\ th.pc = "index"
           /\ updated(update_indexes(indexes, row.row_id, row.data, th.converted))
           /\ UNCHANGED <<schemas, storage, catalog, last, base>>

\* UPDATE, one row: "Rollback", table.update_by_id(row.row_id, old_data)
RollbackRow ==
    \E t \in Threads :
        LET th == threads[t] IN
        /\ th.pc = "rollback"
        /\ storage' = update_by_id(storage, Head(th.targets).row_id,
                                   Head(th.targets).data)
        /\ threads' = [threads EXCEPT ![t] = Done(th, FALSE, "index", <<>>)]
        /\ UNCHANGED <<schemas, indexes, index_file, crashes, catalog, last, base>>

\* DELETE, one row: index_manager.delete_from_indexes(row_id, row.data)
DeleteIndexRow ==
    \E t \in Threads :
        LET th == threads[t]
            row == Head(th.targets)
            cleaned(ix) ==
              /\ indexes' = ix.idxs
              /\ index_file' = IF ix.st = "raise" THEN index_file
                                ELSE _save_indexes(index_file, ix.idxs)
              /\ UNCHANGED crashes
              /\ threads' = [threads EXCEPT ![t] =
                    IF ix.st = "raise" THEN Done(th, FALSE, "exec", <<>>)
                    ELSE [th EXCEPT !.pc = "del_store"]]
        IN /\ th.pc = "del_index"
           /\ cleaned(delete_from_indexes(indexes, row.row_id, row.data))
           /\ UNCHANGED <<schemas, storage, catalog, last, base>>

\* DELETE, one row: table.delete_by_id(row.row_id)
DeleteStoreRow ==
    \E t \in Threads :
        LET th == threads[t] IN
        /\ th.pc = "del_store"
        /\ storage' = delete_by_id(storage, Head(th.targets).row_id)
        /\ threads' = [threads EXCEPT ![t] =
              [th EXCEPT !.targets = Tail(@),
                         !.pc = IF Tail(th.targets) = <<>> THEN "stats"
                                ELSE "del_index"]]
        /\ UNCHANGED <<schemas, indexes, index_file, crashes, catalog, last, base>>

\* the statement succeeded: _update_catalog_after_query
UpdateStats ==
    \E t \in Threads :
        LET th == threads[t] IN
        /\ th.pc = "stats"
        /\ storage' = get_table(storage)
        /\ catalog' = update_table_stats(catalog, count(get_table(storage)))
        /\ threads' = [threads EXCEPT ![t] = Done(th, TRUE, "none", <<>>)]
        /\ UNCHANGED <<schemas, indexes, index_file, crashes, last, base>>

\* every execute() in progress has returned; the callers take the results
ReturnMT ==
    /\ \E t \in Threads : threads[t].pc = "done"
    /\ \A t \in Threads : threads[t].pc \in {"idle", "done"}
    /\ threads' = [t \in Threads |-> IdleThread]
    /\ base' = NoBase
    /\ UNCHANGED <<schemas, storage, indexes, index_file, crashes, catalog, last>>

NextMT ==
    \/ CreateTableMT
    \/ InsertMT
    \/ Return
    \/ BeginUpdate
    \/ BeginDelete
    \/ BeginSelect
    \/ SelectRows
    \/ ScanRows
    \/ CheckRow
    \/ StoreRow
    \/ IndexRow
    \/ RollbackRow
    \/ DeleteIndexRow
    \/ DeleteStoreRow
    \/ UpdateStats
    \/ ReturnMT

SpecMT == Init /\ [][NextMT]_vars

\* ---- SELECT with ORDER BY, LIMIT and OFFSET ----
\* CREATE TABLE t (e INTEGER, a INTEGER); INSERT INTO t (e, a) VALUES (...)
InsertRowsQ == [{"e", "a"} -> Literals]
\* [WHERE e = 1]
WhereTextsQ == {<<>>, << <<"e", "=", "1">> >>}
\* [ORDER BY a | a DESC | e, a DESC | e DESC, a]
OrdersQ ==
    {<<>>,
     << <<"a", "ASC">> >>,
     << <<"a", "DESC">> >>,
     << <<"e", "ASC">>, <<"a", "DESC">> >>,
     << <<"e", "DESC">>, <<"a", "ASC">> >>}
\* [LIMIT n [OFFSET m]]
LimitsQ ==
    {<< <<>>, <<>> >>}
    \cup {<< <<n>>, <<>> >> : n \in 0..MaxVal}
    \cup {<< <<n>>, <<m>> >> : n \in 0..MaxVal, m \in 0..1}

CreateTableQ == CreateTableOf(TableDefsNK)
InsertQ == InsertOf(InsertRowsQ)
SelectQ == SelectOf(WhereTextsQ, OrdersQ, LimitsQ)

NextQ ==
    \/ CreateTableQ
    \/ InsertQ
    \/ SelectQ
    \/ Return

SpecQ == Init /\ [][NextQ]_vars

\* ---- the IndexManager and its Index objects, called directly ----
\* A unique index on a and a non-unique index on b; the calls are those of
\* the public methods, with any row_id and any keys.
IndexKindsIX == {<<"a", TRUE>>, <<"b", FALSE>>}
KeysIX == 1..MaxVal
RowIdsIX == 1..(MaxId - 1)
RowDataIX == [{"a", "b"} -> {NULL} \cup KeysIX]

\* the call returns: its arguments, its result and the indexes it leaves
Called(type, q, st, idxs, saved, mids) ==
    /\ indexes' = idxs
    /\ index_file' = saved
    /\ last' = [type |-> type, q |-> q, success |-> st = "ok",
                err |-> IF st = "ok" THEN "none" ELSE st, mids |-> mids]
    /\ UNCHANGED <<schemas, storage, crashes, catalog, threads, base>>

CreateIndexIX ==
    /\ Idle
    /\ \E k \in IndexKindsIX :
          LET made(r) ==
                Called("create_index", [column_name |-> k[1], unique |-> k[2]],
                       r.st, r.idxs,
                       IF r.st = "ok" THEN _save_indexes(index_file, r.idxs)
                       ELSE index_file, <<>>)
          IN made(create_index(indexes, k[1], k[2]))

InsertIntoIndexes ==
    /\ Idle
    /\ \E row_id \in RowIdsIX, row_data \in RowDataIX :
          LET done(r) ==
                Called("insert_into_indexes",
                       [row_id |-> row_id, row_data |-> row_data],
                       r.st, r.idxs,
                       IF r.st = "ok" THEN _save_indexes(index_file, r.idxs)
                       ELSE index_file, r.trail)
          IN done(insert_into_indexes(indexes, row_id, row_data))

DeleteFromIndexes ==
    /\ Idle
    /\ \E row_id \in RowIdsIX, row_data \in RowDataIX :
          LET done(r) ==
                Called("delete_from_indexes",
                       [row_id |-> row_id, row_data |-> row_data],
                       r.st, r.idxs,
                       IF r.st = "ok" THEN _save_indexes(index_file, r.idxs)
                       ELSE index_file, r.trail)
          IN done(delete_from_indexes(indexes, row_id, row_data))

NextIX ==
    \/ CreateIndexIX
    \/ InsertIntoIndexes
    \/ DeleteFromIndexes
    \/ Return

SpecIX == Init /\ [][NextIX]_vars

\* ---- one Index object outside any IndexManager ----
\* indexes holds the object made by Index(table, column, unique); it has no
\* file.  The calls are those of its public methods.
BoundsIO == {NULL} \cup (1..(MaxVal + 1))

IndexNew ==
    /\ Idle
    /\ \E unique \in BOOLEAN :
          Called("Index", [column_name |-> "a", unique |-> unique], "ok",
                 <<NewIndex("a", unique)>>, index_file, <<>>)

IndexInsert ==
    /\ Idle
    /\ indexes # <<>>
    /\ \E key \in KeysIX, row_id \in 1..MaxId :
          LET done(r) ==
                Called("insert", [key |-> key, row_id |-> row_id],
                       r.st, <<r.index>>, index_file, <<>>)
          IN done(Index_insert(indexes[1], key, row_id))

IndexUpdate ==
    /\ Idle
    /\ indexes # <<>>
    /\ \E old_key \in KeysIX, new_key \in KeysIX, row_id \in 1..MaxId :
          LET done(r) ==
                Called("update",
                       [old_key |-> old_key, new_key |-> new_key, row_id |-> row_id],
                       r.st, <<r.index>>, index_file, <<>>)
          IN done(Index_update(indexes[1], old_key, new_key, row_id))

\* range_search(...) of the Index and, with both bounds given, of its root;
\* mids holds the two results
RangeSearch ==
    /\ Idle
    /\ indexes # <<>>
    /\ \E start_key \in BoundsIO, end_key \in BoundsIO,
          include_start \in BOOLEAN, include_end \in BOOLEAN :
          LET done(r, n) ==
                Called("range_search",
                       [start_key |-> start_key, end_key |-> end_key,
                        include_start |-> include_start,
                        include_end |-> include_end],
                       r.st, indexes, index_file, <<r.res, n.res>>)
          IN done(range_search(indexes[1], start_key, end_key,
                               include_start, include_end),
                  IF start_key # NULL /\ end_key # NULL
                  THEN BTreeNode_range_search(indexes[1].root, start_key, end_key,
                                              include_start, include_end)
                  ELSE range_search(indexes[1], start_key, end_key,
                                    include_start, include_end))

NextIO ==
    \/ IndexNew
    \/ IndexInsert
    \/ IndexUpdate
    \/ RangeSearch
    \/ Return

SpecIO == Init /\ [][NextIO]_vars

\* ---- Schema.validate_row and Schema.convert_row on values of every type ----
\* The statements above carry integers and texts of integers.  Here a value
\* is <<type, code>> with the name of its Python type: None, a bool (code 0
\* or 1), an int, a float (code h is the float h / 2, h >= 0), a str (the
\* text itself), a date (code d is the d-th date of IsoDate) and a datetime
\* (code 2 * d + t is the date d at 00:00:00 for t = 0, at 03:04:05 for
\* t = 1).
PyNone == <<"NoneType", 0>>
PyBool(b) == <<"bool", IF b THEN 1 ELSE 0>>
PyInt(n) == <<"int", n>>
PyFloat(h) == <<"float", h>>
PyStr(s) == <<"str", s>>
PyDate(d) == <<"date", d>>
PyDatetime(d, t) == <<"datetime", 2 * d + t>>
TypeOf(value) == value[1]
IsoDate == <<"2024-01-02", "2024-02-29">>
IntsCV == 0..MaxVal

\* the result of a conversion: a value, or the exception raised
Converted(value) == [st |-> "ok", v |-> value]
Raised(exception) == [st |-> exception, v |-> PyNone]

\* str.lower() of the texts with capital letters offered below
lower(s) ==
    CASE s \in {"TRUE", "True"} -> "true"
      [] s \in {"FALSE", "False"} -> "false"
      [] s = "Yes" -> "yes"
      [] s = "N" -> "n"
      [] OTHER -> s

\* int(value): an int is kept, a float is truncated, a text must be the
\* digits of an integer
int(value) ==
    CASE TypeOf(value) \in {"int", "bool"} -> Converted(PyInt(value[2]))
      [] TypeOf(value) = "float" -> Converted(PyInt(value[2] \div 2))
      [] TypeOf(value) = "str" ->
            IF \E n \in IntsCV : ToString(n) = value[2]
            THEN Converted(PyInt(CHOOSE n \in IntsCV : ToString(n) = value[2]))
            ELSE Raised("ValueError")
      [] OTHER -> Raised("TypeError")

\* float(value)
float(value) ==
    CASE TypeOf(value) = "float" -> Converted(value)
      [] TypeOf(value) \in {"int", "bool"} -> Converted(PyFloat(2 * value[2]))
      [] TypeOf(value) = "str" ->
            IF \E n \in IntsCV : value[2] \in {ToString(n), ToString(n) \o ".0"}
            THEN Converted(PyFloat(2 * (CHOOSE n \in IntsCV :
                               value[2] \in {ToString(n), ToString(n) \o ".0"})))
            ELSE IF \E n \in IntsCV : value[2] = ToString(n) \o ".5"
            THEN Converted(PyFloat(2 * (CHOOSE n \in IntsCV :
                               value[2] = ToString(n) \o ".5") + 1))
            ELSE Raised("ValueError")
      [] OTHER -> Raised("TypeError")

\* value.date().isoformat() of a datetime; a variant that keeps the time
\* (value.isoformat())
datetime_isoformat(code) ==
    IsoDate[code \div 2] \o (IF code % 2 = 0 THEN "T00:00:00" ELSE "T03:04:05")
date_isoformat(code) == IsoDate[code \div 2]

\* str(value)
str(value) ==
    CASE TypeOf(value) = "str" -> value[2]
      [] TypeOf(value) = "int" -> ToString(value[2])
      [] TypeOf(value) = "bool" -> IF value[2] = 1 THEN "True" ELSE "False"
      [] TypeOf(value) = "float" ->
            ToString(value[2] \div 2) \o (IF value[2] % 2 = 0 THEN ".0" ELSE ".5")
      [] TypeOf(value) = "date" -> IsoDate[value[2]]
      [] TypeOf(value) = "datetime" ->
            IsoDate[value[2] \div 2]
                \o (IF value[2] % 2 = 0 THEN " 00:00:00" ELSE " 03:04:05")
      [] OTHER -> "None"

\* datetime.fromisoformat(s): a date, or a date and a time after "T" or " "
fromisoformat(s) ==
    IF \E d \in DOMAIN IsoDate : s = IsoDate[d]
    THEN Converted(PyDatetime(CHOOSE d \in DOMAIN IsoDate : s = IsoDate[d], 0))
    ELSE IF \E d \in DOMAIN IsoDate :
                s \in {IsoDate[d] \o "T03:04:05", IsoDate[d] \o " 03:04:05"}
    THEN Converted(PyDatetime(CHOOSE d \in DOMAIN IsoDate :
                s \in {IsoDate[d] \o "T03:04:05", IsoDate[d] \o " 03:04:05"}, 1))
    ELSE Raised("ValueError")

\* Column.convert_value on a value that is not None
Column_convert_value(column, value) ==
    CASE column.data_type = "INTEGER" ->
            IF TypeOf(value) = "bool" THEN Raised("TypeError") ELSE int(value)
      [] column.data_type \in {"VARCHAR", "TEXT"} -> Converted(PyStr(str(value)))
      [] column.data_type = "FLOAT" -> float(value)
      [] column.data_type = "BOOLEAN" ->
            IF TypeOf(value) = "bool" THEN Converted(value)
            ELSE IF TypeOf(value) = "str"
                    /\ lower(value[2]) \in {"true", "1", "yes", "t", "y"}
            THEN Converted(PyBool(TRUE))
            ELSE IF TypeOf(value) = "str"
                    /\ lower(value[2]) \in {"false", "0", "no", "f", "n"}
            THEN Converted(PyBool(FALSE))
            ELSE IF TypeOf(value) = "int" THEN Converted(PyBool(value[2] # 0))
            ELSE Raised("TypeError")
      [] column.data_type = "DATE" ->
            IF TypeOf(value) = "datetime"
            THEN Converted(PyStr(date_isoformat(value[2])))
            ELSE IF TypeOf(value) = "date" THEN Converted(PyStr(IsoDate[value[2]]))
            ELSE IF TypeOf(value) = "str"
            THEN IF fromisoformat(value[2]).st = "ok"
                 THEN Converted(PyStr(IsoDate[fromisoformat(value[2]).v[2] \div 2]))
                 ELSE Raised("ValueError")
            ELSE Raised("TypeError")
      [] OTHER -> Converted(value)

\* Column.validate_value
Column_validate_value(column, value) ==
    IF TypeOf(value) = "NoneType" THEN ~is_not_null(column)
    ELSE IF Column_convert_value(column, value).st # "ok" THEN FALSE
    ELSE IF column.data_type = "VARCHAR"
    THEN Len(str(Column_convert_value(column, value).v)) <= column.max_length
    ELSE TRUE

\* row_data.get(col_name)
PyGet(row_data, col_name) ==
    IF col_name \in DOMAIN row_data THEN row_data[col_name] ELSE PyNone

\* the value validate_row and convert_row go on with: the default when the
\* value is None and the column has one
OrDefault(column, value) ==
    IF TypeOf(value) = "NoneType" /\ TypeOf(column.default) # "NoneType"
    THEN column.default ELSE value

\* Schema.validate_row: the verdict and row_data as the call leaves it
Schema_validate_row(schema, row_data) ==
    [valid |-> /\ DOMAIN row_data \subseteq ColumnNames(schema)
               /\ \A i \in DOMAIN schema :
                     Column_validate_value(schema[i],
                         OrDefault(schema[i], PyGet(row_data, schema[i].name))),
     row_data |-> [c \in DOMAIN row_data \cup
                         {schema[i].name : i \in {j \in DOMAIN schema :
                             OrDefault(schema[j], PyGet(row_data, schema[j].name))
                                 # PyGet(row_data, schema[j].name)}} |->
                     IF \E i \in DOMAIN schema : schema[i].name = c
                     THEN OrDefault(CHOOSE col \in Range(schema) : col.name = c,
                                    PyGet(row_data, c))
                     ELSE row_data[c]]]

\* Schema.convert_row: the converted row, or the exception of the first
\* column whose conversion raises
Schema_convert_row(schema, row_data) ==
    LET value(i) == OrDefault(schema[i], PyGet(row_data, schema[i].name))
        conv(i) == IF TypeOf(value(i)) = "NoneType" THEN Converted(PyNone)
                   ELSE Column_convert_value(schema[i], value(i))
        bad == {i \in DOMAIN schema : conv(i).st # "ok"}
    IN IF bad # {}
       THEN [st |-> conv(CHOOSE i \in bad : \A j \in bad : i <= j).st, row |-> <<>>]
       ELSE [st |-> "ok",
             row |-> [c \in ColumnNames(schema) |->
                         conv(CHOOSE i \in DOMAIN schema : schema[i].name = c).v]]

\* the texts offered as values
TextsCV ==
    {"true", "TRUE", "Yes", "n", "maybe", "", "1.5", "2024-01-02",
     "2024-02-29T03:04:05", "2024-13-01"} \cup {ToString(n) : n \in IntsCV}
ValuesCV ==
    {PyNone, PyBool(TRUE), PyBool(FALSE), PyFloat(2), PyFloat(3),
     PyDate(1), PyDatetime(2, 1)}
    \cup {PyInt(n) : n \in IntsCV} \cup {PyStr(s) : s \in TextsCV}
DefaultsCV == {PyNone, PyInt(1), PyStr("TRUE"), PyStr("2024-01-02T03:04:05")}
AllDataTypes == {"INTEGER", "VARCHAR", "FLOAT", "BOOLEAN", "DATE", "TEXT"}
\* Schema("t", [Column("c", data_type, ...)]), a VARCHAR with max_length 4
SchemasCV ==
    {<<ColumnOf("c", data_type, IF data_type = "VARCHAR" THEN 4 ELSE NoLength,
                constraints, default)>> :
        data_type \in AllDataTypes, constraints \in {{}, {"NOT_NULL"}},
        default \in DefaultsCV}
\* row_data with column c, without it, and with a column the schema lacks
RowDataCV ==
    [{"c"} -> ValuesCV] \cup {<<>>} \cup [{"c", "x"} -> {PyNone, PyInt(1)}]

ReturnedCV(type, q, success, err, schema, mids) ==
    /\ schemas' = schema
    /\ last' = [type |-> type, q |-> q, success |-> success, err |-> err,
                mids |-> mids]
    /\ UNCHANGED <<storage, indexes, index_file, crashes, catalog, threads, base>>

SchemaNew ==
    /\ Idle
    /\ \E schema \in SchemasCV :
          ReturnedCV("Schema", [columns |-> schema], TRUE, "none", schema, <<>>)

\* mids holds row_data as validate_row leaves it
ValidateRow ==
    /\ Idle
    /\ schemas # NoSchema
    /\ \E row_data \in RowDataCV :
          LET done(r) ==
                ReturnedCV("validate_row", [row_data |-> row_data], r.valid,
                           IF r.valid THEN "none" ELSE "validation", schemas,
                           <<r.row_data>>)
          IN done(Schema_validate_row(schemas, row_data))

\* mids holds the result of convert_row and, when it returned, the result of
\* convert_row on the row it returned
ConvertRow ==
    /\ Idle
    /\ schemas # NoSchema
    /\ \E row_data \in RowDataCV :
          LET done(r) ==
                ReturnedCV("convert_row", [row_data |-> row_data], r.st = "ok",
                           IF r.st = "ok" THEN "none" ELSE r.st, schemas,
                           IF r.st = "ok"
                           THEN <<r, Schema_convert_row(schemas, r.row)>>
                           ELSE <<r>>)
          IN done(Schema_convert_row(schemas, row_data))

NextCV ==
    \/ SchemaNew
    \/ ValidateRow
    \/ ConvertRow
    \/ Return

SpecCV == Init /\ [][NextCV]_vars

\* ---- statements and the reporting methods of Database ----
\* SELECT * FROM t [WHERE a = 1]
SelectTextsRO == {<<>>, << <<"a", "=", "1">> >>}

\* a reporting method returns
Reported(type, res, cat, file) ==
    /\ catalog' = cat
    /\ storage' = file
    /\ last' = [type |-> type, q |-> <<>>, success |-> TRUE, err |-> "none",
                mids |-> <<res>>]
    /\ UNCHANGED <<schemas, indexes, index_file, crashes, threads, base>>

ListTables ==
    /\ Idle
    /\ Reported("list_tables", list_tables(catalog), catalog, storage)

DescribeTable ==
    /\ Idle
    /\ LET done(r) == Reported("describe_table", r.res, r.cat, storage)
       IN done(describe_table(catalog, schemas))

GetTableStats ==
    /\ Idle
    /\ LET done(r) == Reported("get_table_stats", r.res, catalog, r.file)
       IN done(get_table_stats(catalog, storage, indexes))

GetDatabaseInfo ==
    /\ Idle
    /\ LET done(r) == Reported("get_database_info", r.res, catalog, r.file)
       IN done(get_database_info(catalog, storage))

SelectRO == SelectOf(SelectTextsRO, NoOrder, NoLimit)

NextRO ==
    \/ CreateTableNK
    \/ DropTable
    \/ CreateIndexNK
    \/ InsertNK
    \/ SelectRO
    \/ ListTables
    \/ DescribeTable
    \/ GetTableStats
    \/ GetDatabaseInfo
    \/ Return

SpecRO == Init /\ [][NextRO]_vars

\* ============================== claims ==================================
Rows == storage.rows
RowIds(file) == {file.rows[i].row_id : i \in DOMAIN file.rows}
\* {(row.data[C], row.row_id)} over the stored rows whose C is not null
LiveEntries(file, column_name) ==
    {<<Get(file.rows[i].data, column_name), file.rows[i].row_id>> :
        i \in {j \in DOMAIN file.rows : Get(file.rows[j].data, column_name) # NULL}}
IndexOn(column_name) == indexes[IndexPos(indexes, column_name)]

\* C1: after any sequence of statements, successful or failed, every index on
\* a column C holds exactly the entries (row.data[C], row.row_id) of the
\* stored rows whose C is not null.
C1_IndexEqualsStorage ==
    \A i \in DOMAIN indexes :
        Entries(indexes[i]) = LiveEntries(storage, indexes[i].column_name)

\* C2: no two stored rows hold the same non-null value in a column declared
\* PRIMARY KEY or UNIQUE.
C2_NoDuplicateUniqueValues ==
    \A c \in DOMAIN schemas : is_unique(schemas[c]) =>
        \A i, j \in DOMAIN Rows :
            (i # j /\ Get(Rows[i].data, schemas[c].name) # NULL) =>
                Get(Rows[i].data, schemas[c].name) # Get(Rows[j].data, schemas[c].name)

\* an UPDATE aimed at several rows was refused by the unique check of a
\* UNIQUE column, two rows being stored
C2_Witness ==
    /\ last.type = "UPDATE" /\ last.err = "unique" /\ last.q.text = <<>>
    /\ "a" \in DOMAIN last.q.updates /\ "id" \notin DOMAIN last.q.updates
    /\ Len(Rows) >= 2
    /\ \E c \in DOMAIN schemas : schemas[c].name = "a" /\ is_unique(schemas[c])

\* C3: every unique index maps each key to at most one row_id.
C3_UniqueIndexOneRowPerKey ==
    \A i \in DOMAIN indexes : indexes[i].unique =>
        \A k \in DOMAIN indexes[i].root.values :
            Len(indexes[i].root.values[k]) <= 1

Targets(text) ==
    FilterRows(select_all(get_table(storage)), _parse_where(text).where).rows

\* some stored row other than exclude_row_id holds value in column_name
HeldByOther(column_name, value, exclude_row_id) ==
    \E i \in DOMAIN Rows : /\ Rows[i].row_id # exclude_row_id
                           /\ Get(Rows[i].data, column_name) = value

\* row_data gives a PRIMARY KEY / UNIQUE column (one of names) a non-null
\* value that a stored row other than exclude_row_id holds
Duplicates(row_data, names, exclude_row_id) ==
    \E c \in DOMAIN schemas :
        /\ is_unique(schemas[c])
        /\ schemas[c].name \in names
        /\ Get(row_data, schemas[c].name) # NULL
        /\ HeldByOther(schemas[c].name, Get(row_data, schemas[c].name), exclude_row_id)

\* C5: an INSERT whose value for a PRIMARY KEY or UNIQUE column equals that
\* of a stored row fails, and the rows, every index and the catalog
\* row_count are what they were before the statement.
C5_DuplicateInsertRejected ==
    [][(Idle /\ last'.type = "INSERT"
             /\ Duplicates(last'.q.row_data, ColumnNames(schemas), 0))
        => (/\ ~last'.success
            /\ storage'.rows = storage.rows
            /\ indexes' = indexes
            /\ catalog'.table.row_count = catalog.table.row_count)]_vars

\* an INSERT was refused for the value of the UNIQUE column a alone: its id
\* is new, its a is held by a stored row
C5_Witness ==
    /\ last.type = "INSERT" /\ ~last.success /\ last.err = "unique"
    /\ ~HeldByOther("id", last.q.row_data["id"], 0)
    /\ last.q.row_data["a"] # NULL
    /\ HeldByOther("a", last.q.row_data["a"], 0)
    /\ indexes # <<>>

\* C6: an UPDATE of a single row that gives a PRIMARY KEY or UNIQUE column a
\* value held by a different stored row fails; the rows and every index
\* are what they were before the statement.
C6_DuplicateUpdateRejected ==
    [][(Idle /\ last'.type = "UPDATE"
             /\ _parse_where(last'.q.text).st = "ok"
             /\ Len(Targets(last'.q.text)) = 1
             /\ Duplicates(last'.q.updates, DOMAIN last'.q.updates,
                           Targets(last'.q.text)[1].row_id))
        => (/\ ~last'.success
            /\ storage'.rows = storage.rows
            /\ indexes' = indexes)]_vars

\* a one-row UPDATE of the UNIQUE column a was refused by the unique check
C6_Witness ==
    /\ last.type = "UPDATE" /\ ~last.success /\ last.err = "unique"
    /\ DOMAIN last.q.updates = {"a"}
    /\ Len(last.q.text) = 1 /\ last.q.text[1][1] = "id"
    /\ Len(Targets(last.q.text)) = 1
    /\ HeldByOther("a", last.q.updates["a"], Targets(last.q.text)[1].row_id)
    /\ Len(indexes) = 2

\* C7: when the index step of INSERT fails after the row was written to
\* storage, the statement fails and the row is deleted again: rows and
\* indexes are what they were, the row-id counter has advanced by one.
C7_InsertIndexFailureCompensated ==
    [][(Idle /\ last'.type = "INSERT" /\ ~last'.success /\ last'.mids # <<>>)
        => (/\ Len(last'.mids[1].file.rows) = Len(storage.rows) + 1
            /\ Last(last'.mids).file.rows = storage.rows
            /\ storage'.rows = storage.rows
            /\ indexes' = indexes
            /\ storage'.next_id = get_table(storage).next_id + 1)]_vars

\* an INSERT failed in the index step on a second index, after the row was
\* stored and entered in the first index
C7_Witness ==
    /\ last.type = "INSERT" /\ ~last.success /\ last.err = "index"
    /\ Len(last.mids) >= 3
    /\ Len(indexes) = 2
    /\ Rows # <<>>

\* C8: when update_indexes fails for the row of a one-row UPDATE, the row's
\* stored data and every index equal their values before the statement.
C8_UpdateIndexFailureRolledBack ==
    [][(Idle /\ last'.type = "UPDATE" /\ ~last'.success
             /\ last'.err \in {"index", "exec"}
             /\ Len(Targets(last'.q.text)) = 1)
        => (/\ storage'.rows = storage.rows
            /\ indexes' = indexes)]_vars

\* C9: in every state, the intermediate states of a statement included,
\* every index entry refers to a row_id present in storage (a SELECT writes
\* nothing: its record holds the rows it returned, not intermediate states).
NoDangling(file, idxs) ==
    \A i \in DOMAIN idxs : \A e \in Entries(idxs[i]) : e[2] \in RowIds(file)
C9_NoDanglingIndexEntry ==
    /\ NoDangling(storage, indexes)
    /\ last.type # "SELECT"
         => \A m \in DOMAIN last.mids :
                NoDangling(last.mids[m].file, last.mids[m].idxs)

\* C10: a DELETE or UPDATE whose WHERE clause has a conjunct the parser
\* cannot turn into a condition (IN, OR, several operator occurrences) is
\* not executed against the table: no stored row changes.
Unparseable(part) ==
    \/ "IN" \in Range(part)
    \/ "OR" \in Range(part)
    \/ Cardinality({i \in DOMAIN part : part[i] \in Range(CompareOps)}) # 1
C10_UnparseableWhereRejected ==
    [][(Idle /\ last'.type \in {"UPDATE", "DELETE"}
             /\ \E p \in DOMAIN last'.q.text : Unparseable(last'.q.text[p]))
        => storage'.rows = storage.rows]_vars

\* the WHERE text "<pk column> = <value>" for the PRIMARY KEY of the schema
PkWhere(schema, row_data) ==
    LET pk == CHOOSE i \in DOMAIN schema : is_primary_key(schema[i])
    IN << <<schema[pk].name, "=", Tok(Get(row_data, schema[pk].name))>> >>

\* DELETE FROM t WHERE <text>, executed on the state a step has just reached
DeleteAfter(text) ==
    WithTable(_execute_delete([schema |-> schemas', file |-> storage', idxs |-> indexes',
         saved |-> index_file', disk |-> <<>>],
                              _parse_where(text).where))

Issued == Last(last'.mids[1].file.rows).row_id

\* C12: within the lifetime of a table the row-id counter never goes back, a
\* storage insert hands out the counter's value and advances it by one, and
\* that value is greater than every row_id stored (so greater than every
\* one handed out before, deleted and rolled-back rows included).
C12_RowIdsStrictlyIncrease ==
    [][/\ (last'.type # "DROP_TABLE")
            => get_table(storage').next_id >= get_table(storage).next_id
       /\ \A r \in RowIds(storage) : r < storage.next_id
       /\ (Idle /\ last'.type = "INSERT" /\ last'.mids # <<>>)
            => (/\ Issued = get_table(storage).next_id
                /\ storage'.next_id = Issued + 1
                /\ \A r \in RowIds(storage) : r < Issued)]_vars

\* an INSERT received row_id 3 although only this row is stored: the rows 1
\* and 2 were deleted, or their INSERT was rolled back
C12_Witness ==
    /\ last.type = "INSERT" /\ last.success
    /\ Len(Rows) = 1 /\ Rows[1].row_id = 3

\* ---- two statements in two threads ----
BaseDb == [schema |-> schemas, file |-> base.file, idxs |-> base.idxs,
           saved |-> index_file, disk |-> <<>>]

\* the statement of thread record th executed alone, as one piece, on db
RunAlone(db, th) ==
    IF th.err = "parse"
    THEN [file |-> db.file, idxs |-> db.idxs, success |-> FALSE, err |-> "parse",
          rows |-> <<>>]
    ELSE IF th.type = "UPDATE"
    THEN LET r == WithTable(_execute_update(db, th.q.updates, th.where))
         IN [file |-> r.file, idxs |-> r.idxs, success |-> r.success, err |-> r.err,
             rows |-> <<>>]
    ELSE IF th.type = "DELETE"
    THEN LET r == WithTable(_execute_delete(db, th.where))
         IN [file |-> r.file, idxs |-> r.idxs, success |-> r.success, err |-> r.err,
             rows |-> <<>>]
    ELSE LET r == _execute_select(db, th.where, <<>>, <<>>, <<>>)
         IN [file |-> r.file, idxs |-> db.idxs, success |-> r.success, err |-> r.err,
             rows |-> r.rows]

\* rows of the table and the entries of each of its indexes
Contents(file, idxs) ==
    [rows |-> file.rows, entries |-> [i \in DOMAIN idxs |-> Entries(idxs[i])]]

\* the statement of thread t, then the statement of thread u, from base
Serial(t, u) ==
    LET first == RunAlone(BaseDb, threads[t])
        second == RunAlone([schema |-> schemas, file |-> first.file,
                            idxs |-> first.idxs,
                            saved |-> index_file, disk |-> <<>>], threads[u])
    IN Contents(second.file, second.idxs)

Writes == {"UPDATE", "DELETE"}

\* C13: when two write statements have run in two threads, the rows and the
\* index contents of the table are those of running the two statements one
\* after the other, in one of the two orders.
C13_WritesSerialized ==
    (/\ \A t \in Threads : threads[t].pc = "done" /\ threads[t].type \in Writes)
        => \/ Contents(storage, indexes) = Serial(1, 2)
           \/ Contents(storage, indexes) = Serial(2, 1)

\* the rows a SELECT returns when executed alone on the given table
SelectOn(file, idxs, th) ==
    RunAlone([schema |-> schemas, file |-> file, idxs |-> idxs,
              saved |-> index_file, disk |-> <<>>], th).rows

\* C14: a SELECT that ran concurrently with one write statement returned the
\* rows it returns on the table as it was before the write, or the rows it
\* returns on the table as the write, executed alone, leaves it.
C14_ReadSeesBeforeOrAfter ==
    \A t, u \in Threads :
        (/\ threads[t].pc = "done" /\ threads[t].type = "SELECT"
         /\ threads[u].pc = "done" /\ threads[u].type \in Writes)
        => LET after == RunAlone(BaseDb, threads[u])
           IN \/ threads[t].rows = SelectOn(base.file, base.idxs, threads[t])
              \/ threads[t].rows = SelectOn(after.file, after.idxs, threads[t])

\* the data an UPDATE with these SET values gives a row holding old_data
NewData(old_data, updates) ==
    convert_row(schemas,
                [c \in DOMAIN old_data \cup DOMAIN updates |->
                    IF c \in DOMAIN updates THEN updates[c] ELSE old_data[c]])

\* the entries an index holds for one row
EntriesOf(index, row_id) == {e \in Entries(index) : e[2] = row_id}

\* the entries an index on column c holds for a row with this data
EntriesFor(data, c, row_id) ==
    IF Get(data, c) = NULL THEN {} ELSE {<<Get(data, c), row_id>>}

\* the first k-1 of the target rows hold their new data in storage and in
\* every index; every other row holds its old data in storage, and every
\* index holds for it what it held before or exactly its old data
CommittedUpTo(k, targets, updates) ==
    LET DoneIds == {targets[j].row_id : j \in {d \in DOMAIN targets : d < k}}
    IN /\ Len(storage'.rows) = Len(storage.rows)
       /\ Len(indexes') = Len(indexes)
       /\ \A i \in DOMAIN storage.rows :
            LET old == storage.rows[i]
                new == storage'.rows[i]
            IN /\ new.row_id = old.row_id
               /\ new.data = IF old.row_id \in DoneIds
                             THEN NewData(old.data, updates)
                             ELSE old.data
               /\ \A x \in DOMAIN indexes :
                    LET c == indexes[x].column_name IN
                    IF old.row_id \in DoneIds
                    THEN EntriesOf(indexes'[x], old.row_id)
                            = EntriesFor(new.data, c, old.row_id)
                    ELSE EntriesOf(indexes'[x], old.row_id)
                            \in {EntriesOf(indexes[x], old.row_id),
                                 EntriesFor(old.data, c, old.row_id)}

\* C15: an UPDATE aimed at several rows that fails reports failure and, for
\* the row k it failed on, leaves the rows before k with their new data and
\* row k and the later rows with their old data, in storage and in every
\* index.
C15_PartialUpdateCommitted ==
    [][(Idle /\ last'.type = "UPDATE" /\ ~last'.success /\ last'.err # "parse"
             /\ Len(Targets(last'.q.text)) >= 2)
        => \E k \in DOMAIN Targets(last'.q.text) :
              CommittedUpTo(k, Targets(last'.q.text), last'.q.updates)]_vars

\* two live rows hold the same non-null value in the column
HasDuplicates(file, column_name) ==
    \E i, j \in DOMAIN file.rows :
        /\ i # j
        /\ Get(file.rows[i].data, column_name) # NULL
        /\ Get(file.rows[i].data, column_name) = Get(file.rows[j].data, column_name)

\* C16: CREATE UNIQUE INDEX on a column without an index, in which two live
\* rows hold the same non-null value, fails, and afterwards neither the
\* index manager nor the catalog has an index on the column.
C16_UniqueIndexOverDuplicatesRejected ==
    [][(Idle /\ last'.type = "CREATE_INDEX" /\ last'.q.unique
             /\ schemas # NoSchema
             /\ ~has_index(indexes, last'.q.column_name)
             /\ HasDuplicates(storage, last'.q.column_name))
        => /\ ~last'.success
           /\ ~has_index(indexes', last'.q.column_name)
           /\ \A d \in catalog'.indexes : d.column # last'.q.column_name]_vars

Named(cat, index_name) == {d \in cat.indexes : d.name = index_name}

\* C18: DROP INDEX idx succeeds when CREATE INDEX idx ON t(c) has made an
\* index that is still there, whatever the name idx, and then neither the
\* index manager nor the catalog has the index on c; it fails when the
\* table has no index of that name (an implicit index counting as named by
\* its column).
C18_DropIndexByName ==
    [][(Idle /\ last'.type = "DROP_INDEX")
        => IF Named(catalog, last'.q.index_name) # {}
           THEN /\ last'.success
                /\ \A d \in Named(catalog, last'.q.index_name) :
                      /\ IndexPos(indexes', d.column) = 0
                      /\ \A e \in catalog'.indexes : e.column # d.column
           ELSE IndexPos(indexes, last'.q.index_name) = 0 => ~last'.success]_vars

\* the (column, unique) pairs of the catalog's descriptors and of the index
\* manager's indexes of the table
CatalogIndexes(cat) == {<<d.column, d.unique>> : d \in cat.indexes}
ManagerIndexes(idxs) == {<<idxs[i].column_name, idxs[i].unique>> : i \in DOMAIN idxs}

\* C19: after every successful statement the catalog describes exactly the
\* indexes the index manager holds, the implicit indexes of PRIMARY KEY and
\* UNIQUE columns included.
C19_CatalogDescribesIndexes ==
    (last.type # "none" /\ last.success)
        => CatalogIndexes(catalog) = ManagerIndexes(indexes)

\* CREATE TABLE t (<columns>), executed on the state a step has just reached
CreateAfter(columns) ==
    _execute_create_table([schema |-> schemas', file |-> storage', idxs |-> indexes',
         saved |-> index_file', disk |-> <<>>],
                          columns)

\* C20: DROP TABLE on a missing table fails and changes nothing; on a table
\* that exists it succeeds and leaves no index, no row, no schema and
\* nothing about the table in the catalog, and a CREATE TABLE that follows
\* gives a table without rows whose indexes have no entries.
C20_DropTableRemovesEverything ==
    [][(Idle /\ last'.type = "DROP_TABLE")
        => IF schemas = NoSchema
           THEN /\ ~last'.success
                /\ UNCHANGED <<schemas, storage, indexes, catalog>>
           ELSE /\ last'.success
                /\ schemas' = NoSchema
                /\ indexes' = <<>>
                /\ ~storage'.exists /\ storage'.rows = <<>>
                /\ ~catalog'.table.registered /\ catalog'.indexes = {}
                /\ \A columns \in TableDefs :
                      LET c == CreateAfter(columns)
                      IN /\ c.success
                         /\ c.file.exists /\ c.file.rows = <<>>
                         /\ \A i \in DOMAIN c.idxs : Entries(c.idxs[i]) = {}]_vars

\* a table that held two rows (indexed by their primary key) has been
\* dropped
C20_Witness ==
    /\ last.type = "DROP_TABLE" /\ last.success
    /\ Len(last.mids[1].file.rows) = 2
    /\ schemas = NoSchema /\ indexes = <<>>

\* C30: in every reachable state no index holds an entry whose key is null.
C30_NoNullKeyIndexed ==
    \A i \in DOMAIN indexes :
        \A k \in DOMAIN indexes[i].root.keys : indexes[i].root.keys[k] # NULL

\* the rows a full scan followed by the WHERE filter returns
ScanAndFilter(text) == FilterRows(select_all(storage), _parse_where(text).where)

\* C27: a SELECT answers as the full scan followed by the WHERE filter does:
\* it succeeds exactly when that does, with the same set of rows, whether or
\* not it took its candidate rows from an index.
C27_IndexSelectEqualsScan ==
    (last.type = "SELECT" /\ last.err # "parse" /\ schemas # NoSchema)
        => IF ScanAndFilter(last.q.text).st = "raise"
           THEN ~last.success
           ELSE /\ last.success
                /\ Range(last.mids)
                     = {r.data : r \in Range(ScanAndFilter(last.q.text).rows)}

\* the rows rebuild_index could not index (it prints a warning for each)
\* when CREATE INDEX on the column is executed in the state before a step
RebuildWarnings(column_name, unique) ==
    rebuild_index(create_index(indexes, column_name, unique).idxs, column_name,
                  select_all(get_table(storage))).warned

\* C26: execute() returns every failure as a result with success = false and
\* a message naming it, and a statement in which some row could not be
\* indexed (CREATE INDEX populating the index) does not report success.
C26_NoFailureDropped ==
    [][/\ ~last'.success => last'.err # "none"
       /\ (Idle /\ last'.type = "CREATE_INDEX" /\ last'.success)
            => RebuildWarnings(last'.q.column_name, last'.q.unique) = <<>>]_vars

\* C23: a CREATE TABLE that reports failure leaves the catalog as it was and
\* registers nothing: the table exists afterwards exactly if it existed
\* before, as schema and as storage file, and the set of indexes is the same.
C23_FailedCreateTableRegistersNothing ==
    [][(Idle /\ last'.type = "CREATE_TABLE" /\ ~last'.success)
        => /\ catalog' = catalog
           /\ (schemas' = NoSchema) = (schemas = NoSchema)
           /\ storage'.exists = storage.exists
           /\ ManagerIndexes(indexes') = ManagerIndexes(indexes)]_vars

\* a column list that names a column twice
RepeatsName(columns) ==
    \E i, j \in DOMAIN columns : i # j /\ columns[i].name = columns[j].name

\* C24: a CREATE TABLE whose column list names a column twice fails and
\* registers no table, and a CREATE TABLE that succeeds registers a schema
\* with exactly the columns declared.
C24_DuplicateColumnRejected ==
    [][(Idle /\ last'.type = "CREATE_TABLE")
        => /\ (schemas = NoSchema /\ RepeatsName(last'.q.columns))
                => (/\ ~last'.success
                    /\ schemas' = NoSchema
                    /\ ~catalog'.table.registered)
           /\ last'.success
                => (/\ schemas' = last'.q.columns
                    /\ ~RepeatsName(schemas'))]_vars

\* a value a column of the schema may hold: not null under NOT NULL or
\* PRIMARY KEY, and rendered with at most max_length characters in a VARCHAR
FitsColumn(column, value) ==
    IF value = NULL THEN ~is_not_null(column)
    ELSE column.data_type = "VARCHAR" => RenderedLen(value) <= column.max_length

RowSatisfies(schema, data) ==
    \A i \in DOMAIN schema : FitsColumn(schema[i], Get(data, schema[i].name))

\* the row an INSERT or UPDATE asks for, the defaults filled in
Requested(row_data) == WithDefaults(schemas, row_data)

\* C25: every stored row satisfies the schema of its table, and an INSERT or
\* an UPDATE (of at least one row) that asks for a row that does not satisfy
\* it fails and changes neither rows nor indexes nor catalog.
C25_RowsSatisfySchema ==
    [][/\ \A i \in DOMAIN storage'.rows : RowSatisfies(schemas', storage'.rows[i].data)
       /\ (Idle /\ last'.type = "INSERT" /\ schemas # NoSchema
                /\ ~RowSatisfies(schemas, Requested(last'.q.row_data)))
            => (~last'.success /\ UNCHANGED <<schemas, storage, indexes, catalog>>)
       /\ (Idle /\ last'.type = "UPDATE" /\ schemas # NoSchema /\ last'.err # "parse"
                /\ \E i \in DOMAIN Targets(last'.q.text) :
                     ~RowSatisfies(schemas,
                         Requested([c \in DOMAIN Targets(last'.q.text)[i].data
                                          \cup DOMAIN last'.q.updates |->
                                      IF c \in DOMAIN last'.q.updates
                                      THEN last'.q.updates[c]
                                      ELSE Targets(last'.q.text)[i].data[c]])))
            => (~last'.success /\ UNCHANGED <<schemas, storage, indexes, catalog>>)]_vars

\* an UPDATE that asked for a two-character value in a VARCHAR(1) column of
\* a stored row was refused
C25_Witness ==
    /\ last.type = "UPDATE" /\ ~last.success /\ last.err = "validation"
    /\ "n" \in DOMAIN last.q.updates /\ last.q.updates["n"] = LongVal
    /\ \E i \in DOMAIN schemas : schemas[i].name = "n" /\ schemas[i].data_type = "VARCHAR"
    /\ Len(Rows) >= 1

\* ---- the process ends, the data directory is opened again ----
\* the table files a statement's storage calls leave complete: the file as
\* it was before the statement and as it is after each write of the run
CompleteFiles(file, disk) ==
    {_read_data(file)} \cup {_read_data(disk[k].file) : k \in DOMAIN disk}

\* C28: when the process ends at any point of an INSERT, UPDATE or DELETE,
\* the table read after the restart (rows and row-id counter) is the table
\* as it was before the statement or as one of the statement's storage
\* calls left it when it returned: never a table emptied by a half-written
\* file.
C28_CrashLeavesCompleteTable ==
    [][(last'.type = "CRASH" /\ last'.q.type \in {"INSERT", "UPDATE", "DELETE"})
        => _read_data(storage') \in CompleteFiles(storage, last'.mids)]_vars

\* what a starting Database finds in the data directory
MissingStorage(file, cat) == cat.table.registered /\ ~file.exists
OrphanIndexState(saved, cat) == saved.exists /\ ~cat.table.registered

\* C22: a Database that starts on a data directory in which the catalog
\* lists the table while its table file is missing, or in which there is an
\* index file for the table while the catalog does not list it, reports an
\* error.
C22_StartupReportsRecoveryError ==
    [][(/\ last'.type \in {"OPEN", "CRASH"}
        /\ \/ MissingStorage(storage', catalog')
           \/ OrphanIndexState(index_file', catalog'))
        => ~last'.success]_vars

\* the indexes of the table as a caller sees them: column, unique flag and
\* the (key, row_id) entries
IndexViews(idxs) ==
    {[column_name |-> idxs[i].column_name, unique |-> idxs[i].unique,
      entries |-> Entries(idxs[i])] : i \in DOMAIN idxs}

\* C29: closing the Database after any sequence of statements, none of them
\* cut short, and opening a new one on the same data directory gives the
\* same schema, the same rows and row-id counter, and the same indexes with
\* the same unique flags and (key, row_id) entries as were in memory before.
C29_ReopenRestoresState ==
    [][(last'.type = "OPEN" /\ crashes = 0)
        => (/\ schemas' = schemas
            /\ _read_data(storage') = _read_data(storage)
            /\ IndexViews(indexes') = IndexViews(indexes))]_vars

\* C21: DROP TABLE removes the indexes of the table, then its storage, and
\* the catalog entry after both.  In every state the statement passes
\* through, and in the state a new Database loads when the process ends at
\* any point of the statement, an index of the table exists only while the
\* table file does; and as long as the table file is left, the catalog is
\* as it was.
C21_DropTableLeavesNoDanglingIndex ==
    [][/\ (Idle /\ last'.type = "DROP_TABLE" /\ last'.success)
          => /\ \A m \in DOMAIN last'.mids :
                   last'.mids[m].idxs # <<>> => last'.mids[m].file.exists
             /\ indexes' = <<>> /\ _load_indexes(index_file') = <<>>
             /\ ~storage'.exists
       /\ (last'.type = "CRASH" /\ last'.q.type = "DROP_TABLE")
          => /\ _load_indexes(index_file') # <<>> => storage'.exists
             /\ (storage.exists /\ storage'.exists /\ last'.q.how # "catalog")
                   => catalog' = catalog]_vars

\* the process ended in the DROP TABLE of a table with two indexes after
\* the first was removed: the restart finds the table file, the catalog
\* entry and the other index
C21_Witness ==
    /\ last.type = "CRASH" /\ last.q.type = "DROP_TABLE"
    /\ last.q.at = 1 /\ last.q.how = "done" /\ Len(last.mids) = 3
    /\ Len(indexes) = 1 /\ storage.exists /\ catalog.table.registered

\* C36: Index.update(old_key, new_key, row_id) is atomic: when it fails with
\* a unique violation the index holds the entries it held before the call,
\* whether or not (old_key, row_id) was among them; when it succeeds the
\* index holds the prior entries minus (old_key, row_id) plus
\* (new_key, row_id).
C36_IndexUpdateAtomic ==
    [][(Idle /\ last'.type = "update")
        => IF last'.success
           THEN Entries(indexes'[1])
                  = (Entries(indexes[1]) \ {<<last'.q.old_key, last'.q.row_id>>})
                       \cup {<<last'.q.new_key, last'.q.row_id>>}
           ELSE last'.err = "fail" => Entries(indexes'[1]) = Entries(indexes[1])]_vars

\* the key lies within the bounds of the call q
InBounds(k, q) ==
    /\ q.start_key # NULL
         => IF q.include_start THEN q.start_key <= k ELSE q.start_key < k
    /\ q.end_key # NULL
         => IF q.include_end THEN k <= q.end_key ELSE k < q.end_key
\* the row_ids of the keys within the bounds, key by key from position i
RECURSIVE WithinBounds(_, _, _)
WithinBounds(node, q, i) ==
    IF i > Len(node.keys) THEN <<>>
    ELSE (IF InBounds(node.keys[i], q) THEN node.values[i] ELSE <<>>)
            \o WithinBounds(node, q, i + 1)

\* C38: range_search(low, high, include_start, include_end) returns exactly
\* the row_ids of the keys within the bounds (a bound that is omitted does
\* not restrict), listed in ascending key order, and BTreeNode.range_search
\* returns the same list as Index.range_search when both bounds are given.
C38_RangeSearchExact ==
    last.type = "range_search"
        => /\ \A i, j \in DOMAIN indexes[1].root.keys :
                 i < j => indexes[1].root.keys[i] < indexes[1].root.keys[j]
           /\ last.success
           /\ last.mids[1] = WithinBounds(indexes[1].root, last.q, 1)
           /\ last.mids[2] = last.mids[1]

\* a search between two given bounds, the lower one excluded and held as a
\* key, over an index with a key inside and a key outside the bounds
C38_Witness ==
    /\ last.type = "range_search"
    /\ last.q.start_key # NULL /\ last.q.end_key # NULL
    /\ ~last.q.include_start
    /\ last.q.start_key \in Range(indexes[1].root.keys)
    /\ last.mids[1] # <<>>
    /\ last.mids[2] # <<>>

\* C37: when insert_into_indexes(table, row_id, row_data) fails because an
\* index rejects the row, every index of the table holds exactly the entries
\* it held before the call; when it succeeds, every index whose column is
\* non-null in row_data holds (value, row_id).
C37_InsertIntoIndexesRollsBack ==
    [][(Idle /\ last'.type = "insert_into_indexes")
        => /\ Len(indexes') = Len(indexes)
           /\ IF last'.success
              THEN \A i \in DOMAIN indexes :
                      Get(last'.q.row_data, indexes[i].column_name) # NULL
                        => <<Get(last'.q.row_data, indexes[i].column_name),
                             last'.q.row_id>> \in Entries(indexes'[i])
              ELSE \A i \in DOMAIN indexes :
                      Entries(indexes'[i]) = Entries(indexes[i])]_vars

\* the rows of the table that satisfy the WHERE clause, in stored order
Filtered(text) ==
    [i \in DOMAIN ScanAndFilter(text).rows |-> ScanAndFilter(text).rows[i].data]
\* null is the smallest key
KeyRank(v) == IF v = NULL THEN 0 ELSE v
\* x sorts strictly before y: the leftmost key they differ on decides
SortsBefore(x, y, order_by) ==
    \E k \in DOMAIN order_by :
        /\ \A j \in 1..(k - 1) : Get(x, order_by[j][1]) = Get(y, order_by[j][1])
        /\ IF order_by[k][2] = "DESC"
           THEN KeyRank(Get(x, order_by[k][1])) > KeyRank(Get(y, order_by[k][1]))
           ELSE KeyRank(Get(x, order_by[k][1])) < KeyRank(Get(y, order_by[k][1]))
\* result is prior, sorted by the keys, equal rows in their prior order
StableSorted(result, prior, order_by) ==
    /\ Len(result) = Len(prior)
    /\ \E f \in Permutations(DOMAIN prior) :
          /\ \A i \in DOMAIN result : result[i] = prior[f[i]]
          /\ \A i, j \in DOMAIN result :
                i < j => /\ ~SortsBefore(result[j], result[i], order_by)
                         /\ ~SortsBefore(result[i], result[j], order_by)
                               => f[i] < f[j]

\* C34: a SELECT with ORDER BY succeeds on every table state and returns the
\* filtered rows sorted by the listed keys, the leftmost key dominating, ASC
\* ascending and DESC descending, rows equal on all keys in their prior
\* order, a null ordered as the smallest key.
C34_OrderBySorts ==
    (/\ last.type = "SELECT" /\ last.err # "parse" /\ schemas # NoSchema
     /\ last.q.order_by # <<>> /\ last.q.limit = <<>>)
        => /\ last.success
           /\ StableSorted(last.mids, Filtered(last.q.text), last.q.order_by)

\* C35: a SELECT with LIMIT n and optional OFFSET m returns exactly the rows
\* at positions m .. m+n-1 of the filtered, sorted result: at most n rows
\* for every n >= 0, n = 0 included.
C35_LimitOffsetWindow ==
    (/\ last.type = "SELECT" /\ last.success /\ last.q.limit # <<>>)
        => LET m == IF last.q.offset = <<>> THEN 0 ELSE last.q.offset[1]
               n == last.q.limit[1]
               full == _execute_select([schema |-> schemas, file |-> storage,
                                        idxs |-> indexes, saved |-> index_file,
                                        disk |-> <<>>],
                                       _parse_where(last.q.text).where,
                                       last.q.order_by, <<>>, <<>>).rows
           IN /\ Len(last.mids) <= n
              /\ last.mids = [i \in 1..Len(last.mids) |-> full[m + i]]
              /\ Len(last.mids) = n \/ m + Len(last.mids) >= Len(full)

\* ---- column declarations and explicit nulls ----
\* C33: every VARCHAR column of the registered schema has max_length >= 1,
\* and a CREATE TABLE that declares a VARCHAR column with length 0 or
\* without a length fails and registers nothing.
C33_VarcharLengthPositive ==
    [][/\ \A i \in DOMAIN schemas' :
            schemas'[i].data_type = "VARCHAR" => schemas'[i].max_length >= 1
       /\ (Idle /\ last'.type = "CREATE_TABLE"
                /\ \E i \in DOMAIN last'.q.columns :
                      /\ last'.q.columns[i].data_type = "VARCHAR"
                      /\ last'.q.columns[i].max_length < 1)
            => (~last'.success /\ UNCHANGED <<schemas, storage, indexes, catalog>>)]_vars

\* the rows of file whose row_id is in ids
RowsWithIds(file, ids) ==
    {file.rows[i] : i \in {j \in DOMAIN file.rows : file.rows[j].row_id \in ids}}

\* C31: a successful INSERT that gives NULL for a column stores null in that
\* column of the new row, and a successful UPDATE that sets a column to NULL
\* stores null in that column of every row it selected, whatever DEFAULT the
\* column declares; an INSERT fills a column it does not name with the
\* column's default.
C31_ExplicitNullStored ==
    [][/\ (Idle /\ last'.type = "INSERT" /\ last'.success)
            => \A r \in RowsWithIds(storage', RowIds(storage') \ RowIds(storage)) :
                 \A i \in DOMAIN schemas :
                    IF schemas[i].name \in DOMAIN last'.q.row_data
                    THEN last'.q.row_data[schemas[i].name] = NULL
                            => Get(r.data, schemas[i].name) = NULL
                    ELSE schemas[i].default # NULL
                            => Get(r.data, schemas[i].name) # NULL
       /\ (Idle /\ last'.type = "UPDATE" /\ last'.success)
            => \A r \in RowsWithIds(storage', {Targets(last'.q.text)[k].row_id :
                                        k \in DOMAIN Targets(last'.q.text)}) :
                 \A c \in DOMAIN last'.q.updates :
                    last'.q.updates[c] = NULL => Get(r.data, c) = NULL]_vars
\* ---- conversion of values ----
\* C32: when convert_row returns a row, convert_row on that row returns too
\* and returns the same row, for every column type, for nulls and for
\* columns filled from defaults.
C32_ConvertRowIdempotent ==
    (last.type = "convert_row" /\ last.success)
        => /\ last.mids[2].st = "ok"
           /\ last.mids[2].row = last.mids[1].row

\* convert_row turned the text of a date and a time into the text of the
\* date, in a DATE column
C32_Witness ==
    /\ last.type = "convert_row" /\ last.success
    /\ schemas[1].data_type = "DATE"
    /\ last.q.row_data = [c \in {"c"} |-> PyStr("2024-02-29T03:04:05")]
    /\ last.mids[1].row["c"] = PyStr("2024-02-29")

\* the values a BOOLEAN column takes: a bool, one of the ten texts in any
\* letter case, the integers 0 and 1
BooleanInput(value) ==
    \/ TypeOf(value) = "bool"
    \/ TypeOf(value) = "str"
          /\ lower(value[2]) \in {"true", "false", "1", "0", "yes", "no",
                                  "t", "f", "y", "n"}
    \/ TypeOf(value) = "int" /\ value[2] \in {0, 1}

\* C39: for a BOOLEAN column, validate_row accepts a row whose value is not
\* null exactly if the value is a bool, one of the listed texts or the
\* integer 0 or 1, and convert_row raises on every other value.
C39_BooleanInputs ==
    (/\ last.type \in {"validate_row", "convert_row"}
     /\ schemas[1].data_type = "BOOLEAN"
     /\ DOMAIN last.q.row_data = {"c"}
     /\ TypeOf(OrDefault(schemas[1], last.q.row_data["c"])) # "NoneType")
        => (last.success <=> BooleanInput(OrDefault(schemas[1], last.q.row_data["c"])))
\* ---- operations that only read ----
ReadOnlyTypes ==
    {"SELECT", "list_tables", "describe_table", "get_table_stats",
     "get_database_info"}

\* C40: SELECT, list_tables, describe_table, get_table_stats and
\* get_database_info leave the catalog, the rows of the table and the
\* indexes as they were, and the catalog entry of the table never holds a
\* key that register_table did not write.
C40_ReadOnlyOperations ==
    [][/\ (Idle /\ last'.type \in ReadOnlyTypes)
            => /\ catalog' = catalog
               /\ _read_data(storage') = _read_data(storage)
               /\ indexes' = indexes
               /\ index_file' = index_file
       /\ catalog'.table.added = {}]_vars
====
